---- MODULE Spec2Model ----
(***************************************************************************)
(* Component validation and normalization of the Atlas Command HTTP        *)
(* client: validateEntityComponents, stripNulls and componentsToRecord of  *)
(* package/src/types/components.ts, and AtlasHttpClient of                 *)
(* package/src/httpClient.ts.  Spec runs the component functions,          *)
(* SpecClient one call of a client method, SpecSession a client from its   *)
(* construction on with several operations in flight.                      *)
(*                                                                         *)
(* JavaScript values are tagged tuples.  A property key is a sequence of   *)
(* one-character strings, so that String.prototype.startsWith and the      *)
(* array-index test of property enumeration are computed on characters.    *)
(* An object is the sequence of its <<key, value>> entries in the order    *)
(* the properties were created; OwnKeys gives the order Object.keys and    *)
(* Object.entries enumerate them in.                                       *)
(***************************************************************************)
EXTENDS Integers, Sequences, FiniteSets, TLC

VARIABLES
    components,   \* the argument of the current (or next) call
    source,       \* the mapping the caller built, before any call
    op,           \* the function called last: "none" before any call
    outcome,      \* "pending", "returned" or "threw"
    result,       \* the value the call returned (Undefined for void)
    error,        \* the Error the call threw, or NoError
    examined,     \* the keys validateEntityComponents tested, in order
    passes,       \* how many times componentsToRecord was applied in a row
    heap,         \* the arrays and objects in memory, by address
    heapBefore,   \* the heap when the current call was made
    arg,          \* the argument as the call receives it: a reference or undefined
    ret,          \* the value as the call returns it: a reference or undefined
    call,         \* the method called on the client and its arguments
    phase,        \* "idle", "awaiting" a response, or "settled"
    settlement,   \* how the call ended: it threw, or its promise settled
    sent,         \* the requests handed to fetchImpl, in order
    received,     \* the responses fetchImpl resolved with, in order
    reads,        \* the reads of each response's body, in order
    steps,        \* the helpers the method called before its first request
    continuation, \* where the awaiting call resumes
    globalFetch,  \* globalThis.fetch when the client is constructed
    clientOptions,\* the options the constructor was called with
    client,       \* the client's baseUrl, token and fetchImpl, once constructed
    flights       \* the operations in flight on the client, each with its own locals

dataVars ==
    <<components, source, op, outcome, result, error, examined, passes,
      heap, heapBefore, arg, ret>>

clientVars ==
    <<call, phase, settlement, sent, received, reads, steps, continuation>>

sessionVars == <<globalFetch, clientOptions, client, flights>>

vars == <<dataVars, clientVars, sessionVars>>

----------------------------------------------------------------------------
(* Bounds of the model *)

\* Most nodes (scalars, arrays, objects) of a mapping of ValueCases,
\* the mapping itself included.
MaxNodes == 4

\* Most top-level keys of a mapping of KeyCases.
MaxKeys == 2

----------------------------------------------------------------------------
(* JavaScript values *)

Undefined == <<"undefined">>
Null == <<"null">>
Num(n) == <<"number", n>>
Str(s) == <<"string", s>>
Bool(b) == <<"boolean", b>>
Arr(items) == <<"array", items>>
Obj(entries) == <<"object", entries>>

TypeTag(value) == value[1]

\* value === null || value === undefined
IsNullish(value) == value = Null \/ value = Undefined

\* Array.isArray(value)
IsArray(value) == TypeTag(value) = "array"

\* typeof value === "object", for a value that is neither null nor an array
IsObject(value) == TypeTag(value) = "object"

Items(value) == value[2]
InsertedEntries(value) == value[2]

Range(seq) == {seq[i] : i \in 1..Len(seq)}

\* The keys of an object in the order its properties were created.
InsertedKeys(obj) == [i \in 1..Len(InsertedEntries(obj)) |-> InsertedEntries(obj)[i][1]]

KeySet(obj) == Range(InsertedKeys(obj))

\* obj[key], for an own property key of obj
Get(obj, key) ==
    LET es == InsertedEntries(obj)
    IN  es[CHOOSE i \in 1..Len(es) : es[i][1] = key][2]

----------------------------------------------------------------------------
(* Property enumeration order (Object.keys, Object.entries): array-index   *)
(* keys in ascending numeric order, then the other string keys in the      *)
(* order they were created.                                                *)

Digits == {"0", "1", "2", "3", "4", "5", "6", "7", "8", "9"}

DigitValue(c) ==
    CASE c = "0" -> 0 [] c = "1" -> 1 [] c = "2" -> 2 [] c = "3" -> 3
      [] c = "4" -> 4 [] c = "5" -> 5 [] c = "6" -> 6 [] c = "7" -> 7
      [] c = "8" -> 8 [] c = "9" -> 9

RECURSIVE NumericValue(_)
NumericValue(key) ==
    IF key = <<>> THEN 0
    ELSE 10 * NumericValue(SubSeq(key, 1, Len(key) - 1)) + DigitValue(key[Len(key)])

\* A canonical numeric string of an integer below 2^32 - 1.  Keys of the
\* model have fewer than ten characters, so every canonical digit string
\* among them is an array index.
IsArrayIndex(key) ==
    /\ Len(key) >= 1
    /\ Len(key) <= 9
    /\ \A i \in 1..Len(key) : key[i] \in Digits
    /\ (Len(key) > 1 => key[1] # "0")

RECURSIVE AscendingIndices(_)
AscendingIndices(keys) ==
    IF keys = {} THEN <<>>
    ELSE LET least == CHOOSE k \in keys :
                          \A other \in keys : NumericValue(k) <= NumericValue(other)
         IN  <<least>> \o AscendingIndices(keys \ {least})

OwnKeys(obj) ==
    LET inserted == InsertedKeys(obj)
        IsIndex(k) == IsArrayIndex(k)
        IsName(k) == ~IsArrayIndex(k)
    IN  AscendingIndices(Range(SelectSeq(inserted, IsIndex)))
            \o SelectSeq(inserted, IsName)

\* Object.entries(obj)
Entries(obj) == [i \in 1..Len(OwnKeys(obj)) |-> <<OwnKeys(obj)[i], Get(obj, OwnKeys(obj)[i])>>]

----------------------------------------------------------------------------
(* Component keys *)

telemetry == <<"t", "e", "l", "e", "m", "e", "t", "r", "y">>
geometry == <<"g", "e", "o", "m", "e", "t", "r", "y">>
task_catalog == <<"t", "a", "s", "k", "_", "c", "a", "t", "a", "l", "o", "g">>
media_refs == <<"m", "e", "d", "i", "a", "_", "r", "e", "f", "s">>
mil_view == <<"m", "i", "l", "_", "v", "i", "e", "w">>
health == <<"h", "e", "a", "l", "t", "h">>
sensor_refs == <<"s", "e", "n", "s", "o", "r", "_", "r", "e", "f", "s">>
communications == <<"c", "o", "m", "m", "u", "n", "i", "c", "a", "t", "i", "o", "n", "s">>
task_queue == <<"t", "a", "s", "k", "_", "q", "u", "e", "u", "e">>
status == <<"s", "t", "a", "t", "u", "s">>
heartbeat == <<"h", "e", "a", "r", "t", "b", "e", "a", "t">>

\* A known set that lost its last entry.
KNOWN_ENTITY_COMPONENTS_WithoutHeartbeat ==
    {telemetry, geometry, task_catalog, media_refs, mil_view, health,
     sensor_refs, communications, task_queue, status}

KNOWN_ENTITY_COMPONENTS ==
    {telemetry, geometry, task_catalog, media_refs, mil_view, health,
     sensor_refs, communications, task_queue, status, heartbeat}

CustomPrefix == <<"c", "u", "s", "t", "o", "m", "_">>

\* key.includes(prefix) in place of key.startsWith(prefix)
StartsWith_Includes(key, prefix) ==
    \E offset \in 0..Len(key) :
        /\ offset + Len(prefix) <= Len(key)
        /\ \A i \in 1..Len(prefix) : key[offset + i] = prefix[i]

\* key.startsWith(prefix)
StartsWith(key, prefix) ==
    /\ Len(key) >= Len(prefix)
    /\ \A i \in 1..Len(prefix) : key[i] = prefix[i]

----------------------------------------------------------------------------
(* Completions of a call *)

NoError == <<>>

Return(value) == [kind |-> "return", value |-> value, error |-> NoError]
Throw(err) == [kind |-> "throw", value |-> Undefined, error |-> err]

\* new Error(`Unknown component '${key}' in entity components. Custom
\* components must be prefixed with 'custom_'`): the message, with the key
\* kept apart from the literal text around it.
UnknownComponentError(key) ==
    <<"Unknown component '", key,
      "' in entity components. Custom components must be prefixed with 'custom_'">>

----------------------------------------------------------------------------
(* validateEntityComponents *)

\* A loop that collects every offending key and reports the last one.
ScanKeys_ReportsLast(known, keys, i) ==
    LET Offends(j) == ~(keys[j] \in known) /\ ~StartsWith(keys[j], CustomPrefix)
        offenders == {j \in 1..Len(keys) : Offends(j)}
    IN  IF offenders = {}
        THEN [completion |-> Return(Undefined), examined |-> keys]
        ELSE [completion |->
                  Throw(UnknownComponentError(
                      keys[CHOOSE j \in offenders : \A o \in offenders : o <= j])),
              examined |-> keys]

\* The for loop over Object.keys(components), from its i-th key on: the
\* completion of the call and the keys whose test was evaluated.
RECURSIVE ScanKeys(_, _, _)
ScanKeys(known, keys, i) ==
    IF i > Len(keys)
    THEN [completion |-> Return(Undefined), examined |-> keys]
    ELSE IF ~(keys[i] \in known) /\ ~StartsWith(keys[i], CustomPrefix)
         THEN [completion |-> Throw(UnknownComponentError(keys[i])),
               examined |-> SubSeq(keys, 1, i)]
         ELSE ScanKeys(known, keys, i + 1)

\* validateEntityComponents with the known set as a parameter
ValidateAgainst(known, comps) == ScanKeys(known, OwnKeys(comps), 1)

\* A validator that also descends into the component bodies.
RECURSIVE validateEntityComponents_Deep(_)
validateEntityComponents_Deep(comps) ==
    LET top == ValidateAgainst(KNOWN_ENTITY_COMPONENTS, comps)
        inner == {k \in KeySet(comps) :
                     /\ IsObject(Get(comps, k))
                     /\ validateEntityComponents_Deep(Get(comps, k)).completion.kind = "throw"}
    IN  IF top.completion.kind = "throw" \/ inner = {} THEN top
        ELSE LET k == CHOOSE x \in inner : TRUE
             IN  validateEntityComponents_Deep(Get(comps, k))

validateEntityComponents(comps) == ValidateAgainst(KNOWN_ENTITY_COMPONENTS, comps)

----------------------------------------------------------------------------
(* stripNulls and componentsToRecord *)

RECURSIVE stripValue(_), StripEntries(_)

\* A loop that skips undefined fields only and stores a null field as it is.
StripEntries_KeepsNull(entries) ==
    IF entries = <<>> THEN <<>>
    ELSE LET key == Head(entries)[1]
             innerValue == Head(entries)[2]
             rest == StripEntries(Tail(entries))
         IN  IF innerValue = Undefined THEN rest
             ELSE IF innerValue = Null THEN <<(<<key, Null>>)>> \o rest
             ELSE LET stripped == stripValue(innerValue)
                  IN  IF stripped # Undefined
                      THEN <<(<<key, stripped>>)>> \o rest
                      ELSE rest

\* The for loop over Object.entries(value) that fills `nested`.
StripEntries(entries) ==
    IF entries = <<>> THEN <<>>
    ELSE LET key == Head(entries)[1]
             innerValue == Head(entries)[2]
             rest == StripEntries(Tail(entries))
         IN  IF IsNullish(innerValue) THEN rest
             ELSE LET stripped == stripValue(innerValue)
                  IN  IF stripped # Undefined
                      THEN <<(<<key, stripped>>)>> \o rest
                      ELSE rest

\* value.filter(...).map(...): null and undefined elements are removed.
stripValue_FiltersArrays(value) ==
    IF IsNullish(value) THEN Undefined
    ELSE IF IsArray(value)
         THEN LET Kept(item) == ~IsNullish(item)
                  kept == SelectSeq(Items(value), Kept)
              IN  Arr([i \in 1..Len(kept) |-> stripValue(kept[i])])
         ELSE IF IsObject(value)
              THEN Obj(StripEntries(Entries(value)))
              ELSE value

\* A record that ends up empty is returned as undefined, so that its field
\* is omitted by the caller's `stripped !== undefined` test.
stripValue_DropsEmptyRecords(value) ==
    IF IsNullish(value) THEN Undefined
    ELSE IF IsArray(value)
         THEN Arr([i \in 1..Len(Items(value)) |->
                      IF IsNullish(Items(value)[i])
                      THEN Items(value)[i]
                      ELSE stripValue(Items(value)[i])])
         ELSE IF IsObject(value)
              THEN IF StripEntries(Entries(value)) = <<>>
                   THEN Undefined
                   ELSE Obj(StripEntries(Entries(value)))
              ELSE value

\* `if (!value)` in place of the null and undefined tests: 0, "" and false
\* are dropped too.
stripValue_DropsFalsy(value) ==
    IF IsNullish(value) \/ value \in {Num(0), Str(""), Bool(FALSE)} THEN Undefined
    ELSE IF IsArray(value)
         THEN Arr([i \in 1..Len(Items(value)) |->
                      IF IsNullish(Items(value)[i])
                      THEN Items(value)[i]
                      ELSE stripValue(Items(value)[i])])
         ELSE IF IsObject(value)
              THEN Obj(StripEntries(Entries(value)))
              ELSE value

\* Arrays are returned as they are: `return value` without the map.
stripValue_ReturnsArraysAsGiven(value) ==
    IF IsNullish(value) THEN Undefined
    ELSE IF IsArray(value)
         THEN value
         ELSE IF IsObject(value)
              THEN Obj(StripEntries(Entries(value)))
              ELSE value

stripValue(value) ==
    IF IsNullish(value) THEN Undefined
    ELSE IF IsArray(value)
         THEN Arr([i \in 1..Len(Items(value)) |->
                      IF IsNullish(Items(value)[i])
                      THEN Items(value)[i]
                      ELSE stripValue(Items(value)[i])])
         ELSE IF IsObject(value)
              THEN Obj(StripEntries(Entries(value)))
              ELSE value

stripNulls(obj) == stripValue(obj)

\* A record with no field left is returned as undefined.
componentsToRecord_EmptyToUndefined(comps) ==
    IF comps = Undefined \/ stripNulls(comps) = Obj(<<>>) THEN Return(Undefined)
    ELSE Return(stripNulls(comps))

\* The validator is called first and its error propagates.
componentsToRecord_Validates(comps) ==
    IF comps = Undefined THEN Return(Undefined)
    ELSE IF validateEntityComponents(comps).completion.kind = "throw"
         THEN validateEntityComponents(comps).completion
         ELSE Return(stripNulls(comps))

componentsToRecord(comps) ==
    IF comps = Undefined THEN Return(Undefined)
    ELSE Return(stripNulls(comps))

----------------------------------------------------------------------------
(* The same functions on objects in memory.  The heap is the sequence of   *)
(* its arrays and objects; a reference holds an address, an index of the   *)
(* heap.  An array or object of the heap holds scalars and references.     *)

Ref(address) == <<"ref", address>>
IsRef(value) == TypeTag(value) = "ref"
Deref(h, reference) == h[reference[2]]

\* The validator reads Object.keys(components) and writes nothing.
validateEntityComponentsOnHeap(h, reference) ==
    [heap |-> h, run |-> ValidateAgainst(KNOWN_ENTITY_COMPONENTS, Deref(h, reference))]

RECURSIVE stripValueOnHeap(_, _), StripItemsOnHeap(_, _, _), StripEntriesOnHeap(_, _, _)

\* The callback of value.map, item by item, filling the new array at
\* address `target`.
StripItemsOnHeap(h, items, target) ==
    IF items = <<>> THEN h
    ELSE LET item == Head(items)
             mapped == IF IsNullish(item)
                       THEN [heap |-> h, value |-> item]
                       ELSE stripValueOnHeap(h, item)
         IN  StripItemsOnHeap(
                 [mapped.heap EXCEPT ![target] = Arr(Append(Items(@), mapped.value))],
                 Tail(items), target)

\* The for loop over Object.entries(value), filling `nested` at address
\* `target`.
StripEntriesOnHeap(h, entries, target) ==
    IF entries = <<>> THEN h
    ELSE LET key == Head(entries)[1]
             innerValue == Head(entries)[2]
         IN  IF IsNullish(innerValue)
             THEN StripEntriesOnHeap(h, Tail(entries), target)
             ELSE LET stripped == stripValueOnHeap(h, innerValue)
                  IN  StripEntriesOnHeap(
                          IF stripped.value # Undefined
                          THEN [stripped.heap EXCEPT
                                    ![target] = Obj(Append(InsertedEntries(@),
                                                           <<key, stripped.value>>))]
                          ELSE stripped.heap,
                          Tail(entries), target)

\* `if (Array.isArray(value)) return value;`: the input array itself is
\* returned.
stripValueOnHeap_ReturnsInputArray(h, value) ==
    IF IsNullish(value) THEN [heap |-> h, value |-> Undefined]
    ELSE IF IsRef(value) /\ IsArray(Deref(h, value))
         THEN [heap |-> h, value |-> value]
         ELSE IF IsRef(value) /\ IsObject(Deref(h, value))
              THEN [heap |-> StripEntriesOnHeap(Append(h, Obj(<<>>)),
                                                Entries(Deref(h, value)), Len(h) + 1),
                    value |-> Ref(Len(h) + 1)]
              ELSE [heap |-> h, value |-> value]

\* stripValue: value.map builds a new array and `nested` is a new object;
\* a scalar is returned as it is.
stripValueOnHeap(h, value) ==
    IF IsNullish(value) THEN [heap |-> h, value |-> Undefined]
    ELSE IF IsRef(value) /\ IsArray(Deref(h, value))
         THEN [heap |-> StripItemsOnHeap(Append(h, Arr(<<>>)),
                                         Items(Deref(h, value)), Len(h) + 1),
               value |-> Ref(Len(h) + 1)]
         ELSE IF IsRef(value) /\ IsObject(Deref(h, value))
              THEN [heap |-> StripEntriesOnHeap(Append(h, Obj(<<>>)),
                                                Entries(Deref(h, value)), Len(h) + 1),
                    value |-> Ref(Len(h) + 1)]
              ELSE [heap |-> h, value |-> value]

componentsToRecordOnHeap(h, comps) ==
    IF comps = Undefined THEN [heap |-> h, value |-> Undefined]
    ELSE stripValueOnHeap(h, comps)

\* The caller's literal, built in memory: every array and object of the
\* value gets an address of its own.
RECURSIVE LoadValue(_, _), LoadItems(_, _, _), LoadEntries(_, _, _)
LoadItems(h, items, target) ==
    IF items = <<>> THEN h
    ELSE LET loaded == LoadValue(h, Head(items))
         IN  LoadItems([loaded.heap EXCEPT ![target] = Arr(Append(Items(@), loaded.value))],
                       Tail(items), target)

LoadEntries(h, entries, target) ==
    IF entries = <<>> THEN h
    ELSE LET loaded == LoadValue(h, Head(entries)[2])
         IN  LoadEntries(
                 [loaded.heap EXCEPT
                      ![target] = Obj(Append(InsertedEntries(@),
                                             <<Head(entries)[1], loaded.value>>))],
                 Tail(entries), target)

LoadValue(h, value) ==
    IF IsArray(value)
    THEN [heap |-> LoadItems(Append(h, Arr(<<>>)), Items(value), Len(h) + 1),
          value |-> Ref(Len(h) + 1)]
    ELSE IF IsObject(value)
         THEN [heap |-> LoadEntries(Append(h, Obj(<<>>)), InsertedEntries(value), Len(h) + 1),
               value |-> Ref(Len(h) + 1)]
         ELSE [heap |-> h, value |-> value]

\* The value a reference stands for, read from the heap.
RECURSIVE Unload(_, _)
Unload(h, value) ==
    IF ~IsRef(value) THEN value
    ELSE IF IsArray(Deref(h, value))
         THEN Arr([i \in 1..Len(Items(Deref(h, value))) |->
                      Unload(h, Items(Deref(h, value))[i])])
         ELSE Obj([i \in 1..Len(InsertedEntries(Deref(h, value))) |->
                      <<InsertedEntries(Deref(h, value))[i][1],
                        Unload(h, InsertedEntries(Deref(h, value))[i][2])>>])

----------------------------------------------------------------------------
(* The mappings a caller passes *)

\* Keys that are neither known nor prefixed with custom_, and keys that are
\* prefixed.
custom_ == CustomPrefix
custom_weather == CustomPrefix \o <<"w", "e", "a", "t", "h", "e", "r">>
custom == <<"c", "u", "s", "t", "o", "m">>
Custom_x == <<"C", "u", "s", "t", "o", "m", "_", "x">>
x_custom_ == <<"x", "_">> \o CustomPrefix
unknown_key == <<"u", "n", "k", "n", "o", "w", "n", "_", "k", "e", "y">>
key_7 == <<"7">>
key_10 == <<"1", "0">>

\* Field names of component bodies.
latitude == <<"l", "a", "t", "i", "t", "u", "d", "e">>
polygon == <<"p", "o", "l", "y", "g", "o", "n">>

\* The keys a caller may use at top level: the names of the typed
\* components, custom_ keys, and keys of neither kind.
KeyPool ==
    {telemetry, geometry, task_catalog, media_refs, mil_view, health,
     sensor_refs, communications, task_queue, status, heartbeat,
     custom_, custom_weather, custom, Custom_x, x_custom_, unknown_key,
     key_7, key_10}

ValueCaseKeys == {telemetry, unknown_key}

NestedKeys == {latitude, polygon}

Leaves == {Null, Undefined, Num(0), Str("x")}

\* The sequences of n different keys of a set.
KeySeqs(keys, n) ==
    {ks \in [1..n -> keys] : \A i, j \in 1..n : i # j => ks[i] # ks[j]}

\* The object built by setting keys[i] to values[i], in that order.
FromEntries(keys, values) == Obj([i \in 1..Len(keys) |-> <<keys[i], values[i]>>])

\* The values of exactly n nodes, and the sequences of values of n nodes in
\* all.
RECURSIVE ValuesOfSize(_), ForestsOfSize(_)
ValuesOfSize(n) ==
    (IF n = 1 THEN Leaves ELSE {})
        \cup {Arr(f) : f \in ForestsOfSize(n - 1)}
        \cup UNION {{FromEntries(ks, f) : ks \in KeySeqs(NestedKeys, Len(f))} :
                       f \in ForestsOfSize(n - 1)}

ForestsOfSize(n) ==
    IF n = 0 THEN {<<>>}
    ELSE UNION {{<<v>> \o f : v \in ValuesOfSize(k), f \in ForestsOfSize(n - k)} :
                   k \in 1..n}

\* Mappings of few keys and of every shape of value up to MaxNodes nodes.
ValueCases ==
    UNION {{FromEntries(ks, f) : ks \in KeySeqs(ValueCaseKeys, Len(f))} :
              f \in UNION {ForestsOfSize(n) : n \in 0..(MaxNodes - 1)}}

\* Mappings of up to MaxKeys keys of the pool, in every order, each with a
\* scalar value.
KeyCases ==
    UNION {{FromEntries(ks, [i \in 1..n |-> Num(1)]) : ks \in KeySeqs(KeyPool, n)} :
              n \in 0..MaxKeys}

Mappings == ValueCases \cup KeyCases

----------------------------------------------------------------------------
(* AtlasHttpClient: requests and responses *)

\* Keys of request bodies, query parameters and response bodies.
\* The property names the client writes and reads, as the strings they are.
Key ==
    [ entity_id |-> <<"e", "n", "t", "i", "t", "y", "_", "i", "d">>,
      entity_type |-> <<"e", "n", "t", "i", "t", "y", "_", "t", "y", "p", "e">>,
      alias |-> <<"a", "l", "i", "a", "s">>,
      subtype |-> <<"s", "u", "b", "t", "y", "p", "e">>,
      components |-> <<"c", "o", "m", "p", "o", "n", "e", "n", "t", "s">>,
      task_id |-> <<"t", "a", "s", "k", "_", "i", "d">>,
      extra |-> <<"e", "x", "t", "r", "a">>,
      usage_hints |-> <<"u", "s", "a", "g", "e", "_", "h", "i", "n", "t", "s">>,
      referenced_by |-> <<"r", "e", "f", "e", "r", "e", "n", "c", "e", "d", "_", "b", "y">>,
      object_id |-> <<"o", "b", "j", "e", "c", "t", "_", "i", "d">>,
      success |-> <<"s", "u", "c", "c", "e", "s", "s">>,
      validate |-> <<"v", "a", "l", "i", "d", "a", "t", "e">>,
      path |-> <<"p", "a", "t", "h">>,
      bucket |-> <<"b", "u", "c", "k", "e", "t">>,
      size_bytes |-> <<"s", "i", "z", "e", "_", "b", "y", "t", "e", "s">>,
      content_type |-> <<"c", "o", "n", "t", "e", "n", "t", "_", "t", "y", "p", "e">>,
      type |-> <<"t", "y", "p", "e">>,
      limit |-> <<"l", "i", "m", "i", "t">>,
      offset |-> <<"o", "f", "f", "s", "e", "t">>,
      since |-> <<"s", "i", "n", "c", "e">>,
      fields |-> <<"f", "i", "e", "l", "d", "s">>,
      status_filter |-> <<"s", "t", "a", "t", "u", "s", "_", "f", "i", "l", "t", "e", "r">>,
      limit_per_type |-> <<"l", "i", "m", "i", "t", "_", "p", "e", "r", "_", "t", "y", "p", "e">>,
      entity_limit |-> <<"e", "n", "t", "i", "t", "y", "_", "l", "i", "m", "i", "t">>,
      task_limit |-> <<"t", "a", "s", "k", "_", "l", "i", "m", "i", "t">>,
      object_limit |-> <<"o", "b", "j", "e", "c", "t", "_", "l", "i", "m", "i", "t">>,
      note |-> <<"n", "o", "t", "e">>,
      status |-> <<"s", "t", "a", "t", "u", "s">>,
      result |-> <<"r", "e", "s", "u", "l", "t">>,
      error_message |-> <<"e", "r", "r", "o", "r", "_", "m", "e", "s", "s", "a", "g", "e">>,
      error_details |-> <<"e", "r", "r", "o", "r", "_", "d", "e", "t", "a", "i", "l", "s">>,
      longitude |-> <<"l", "o", "n", "g", "i", "t", "u", "d", "e">>,
      altitude_m |-> <<"a", "l", "t", "i", "t", "u", "d", "e", "_", "m">>,
      speed_m_s |-> <<"s", "p", "e", "e", "d", "_", "m", "_", "s">>,
      heading_deg |-> <<"h", "e", "a", "d", "i", "n", "g", "_", "d", "e", "g">>,
      latitude |-> <<"l", "a", "t", "i", "t", "u", "d", "e">> ]

\* JSON.parse(JSON.stringify(value)) of a value that is not undefined: a
\* property whose value is undefined is left out, an undefined array
\* element is written as null, properties are written in enumeration order.
RECURSIVE JsonValue(_)
JsonValue(value) ==
    IF IsArray(value)
    THEN Arr([i \in 1..Len(Items(value)) |->
                 IF Items(value)[i] = Undefined THEN Null
                 ELSE JsonValue(Items(value)[i])])
    ELSE IF IsObject(value)
         THEN LET Defined(entry) == entry[2] # Undefined
                  kept == SelectSeq(Entries(value), Defined)
              IN  Obj([i \in 1..Len(kept) |-> <<kept[i][1], JsonValue(kept[i][2])>>])
         ELSE value

\* A body that is the text of a JSON document, by the document it holds.
JsonText(document) == <<"json-text", document>>
PlainText(text) == <<"text", text>>
IsJsonText(body) == body[1] = "json-text"

\* String(value) of a scalar
ToStr(value) ==
    IF TypeTag(value) = "number" THEN ToString(value[2])
    ELSE IF TypeTag(value) = "boolean"
         THEN (IF value[2] THEN "true" ELSE "false")
         ELSE value[2]

\* The loop over Object.entries(params) that skips only undefined
SearchParams_KeepsNull(params) ==
    IF params = Undefined THEN <<>>
    ELSE LET Given(entry) == entry[2] # Undefined
             given == SelectSeq(Entries(params), Given)
         IN  [i \in 1..Len(given) |->
                <<given[i][1], IF given[i][2] = Null THEN "null" ELSE ToStr(given[i][2])>>]

\* url.searchParams after the loop over Object.entries(params)
SearchParams(params) ==
    IF params = Undefined THEN <<>>
    ELSE LET Given(entry) == ~IsNullish(entry[2])
             given == SelectSeq(Entries(params), Given)
         IN  [i \in 1..Len(given) |-> <<given[i][1], ToStr(given[i][2])>>]

\* What request() passes to fetchImpl, with the params it was called with.
\* The body is `body ? JSON.stringify(body) : undefined`.
JsonRequest(method, path, body, params) ==
    [kind |-> "json", method |-> method, path |-> path, params |-> params,
     query |-> SearchParams(params),
     body |-> IF IsNullish(body) THEN Undefined ELSE JsonText(JsonValue(body))]

\* What multipartRequest() passes to fetchImpl.
MultipartRequest(path, formData) ==
    [kind |-> "multipart", method |-> "POST", path |-> path, params |-> Undefined,
     query |-> <<>>, body |-> <<"form-data", formData>>]

\* What downloadObject() and viewObject() pass to fetchImpl.
FetchRequest(path) ==
    [kind |-> "fetch", method |-> "GET", path |-> path, params |-> Undefined,
     query |-> <<>>, body |-> Undefined]

\* Response.ok
Ok(response) == response.status >= 200 /\ response.status <= 299

\* Errors, by the parts of their message.
HttpError(response) == <<"HTTP ", response.status, ": ", response.body>>
MessageError(message) == <<message>>
SyntaxError == <<"SyntaxError", "Unexpected token">>
TypeError == <<"TypeError", "Cannot read properties of undefined">>
NetworkError == <<"TypeError", "fetch failed">>

\* How a call ended, or that it has not.
Pending == [kind |-> "pending", value |-> Undefined, error |-> NoError]
Threw(err) == [kind |-> "threw", value |-> Undefined, error |-> err]
Rejected(err) == [kind |-> "rejected", value |-> Undefined, error |-> err]
Resolved(value) == [kind |-> "resolved", value |-> value, error |-> NoError]

\* response.json() before the ok test
AwaitJson_ParsesFirst(response) ==
    IF ~IsJsonText(response.body)
    THEN [settlement |-> Rejected(SyntaxError), reads |-> <<"json">>]
    ELSE IF ~Ok(response)
         THEN [settlement |-> Rejected(HttpError(response)), reads |-> <<"json", "text">>]
         ELSE [settlement |-> Resolved(response.body[2]), reads |-> <<"json">>]

\* request() and multipartRequest() after `await this.fetchImpl(...)`: the
\* promise's settlement and the reads of the response body.
AwaitJson(response) ==
    IF ~Ok(response)
    THEN [settlement |-> Rejected(HttpError(response)), reads |-> <<"text">>]
    ELSE IF response.status = 204
         THEN [settlement |-> Resolved(Undefined), reads |-> <<>>]
         ELSE IF IsJsonText(response.body)
              THEN [settlement |-> Resolved(response.body[2]), reads |-> <<"json">>]
              ELSE [settlement |-> Rejected(SyntaxError), reads |-> <<"json">>]

----------------------------------------------------------------------------
(* AtlasHttpClient: the methods, up to their first call of fetchImpl *)

\* obj?.[key]: undefined when obj is undefined or has no such property
Prop(obj, key) ==
    IF obj = Undefined THEN Undefined
    ELSE IF key \in KeySet(obj) THEN Get(obj, key) ELSE Undefined

\* obj[key] = value
Put(obj, key, value) ==
    IF key \in KeySet(obj)
    THEN Obj([i \in 1..Len(InsertedEntries(obj)) |->
                 IF InsertedEntries(obj)[i][1] = key THEN <<key, value>>
                 ELSE InsertedEntries(obj)[i]])
    ELSE Obj(Append(InsertedEntries(obj), <<key, value>>))

\* if (value !== undefined) obj[key] = value
PutIfDefined(obj, key, value) ==
    IF value # Undefined THEN Put(obj, key, value) ELSE obj

\* value ?? fallback
OrElse(value, fallback) == IF IsNullish(value) THEN fallback ELSE value

\* !value, for the values of the model
IsFalsy(value) ==
    \/ IsNullish(value)
    \/ value = Str("")
    \/ value = Num(0)
    \/ value = Bool(FALSE)

\* How the synchronous part of a method ends: it throws, it returns a
\* promise that is already rejected, or it hands a request to fetchImpl.
\* helpers lists the helpers the method called on the way, in order.
Throws(err, helpers) == [kind |-> "threw", error |-> err, request |-> Undefined, steps |-> helpers]
RejectsWith(err, helpers) == [kind |-> "rejected", error |-> err, request |-> Undefined, steps |-> helpers]
Sends(req, helpers) == [kind |-> "sent", error |-> NoError, request |-> req, steps |-> helpers]

\* createEntity whose unknown-component error comes as a rejected promise
createEntity_RejectsUnknown(entityId, entityType, alias, subtype, comps) ==
    LET payload == Obj(<<<<Key.entity_id, entityId>>, <<Key.entity_type, entityType>>,
                         <<Key.alias, alias>>, <<Key.subtype, subtype>>>>)
    IN  IF comps # Undefined
        THEN LET validation == validateEntityComponents(comps).completion
             IN  IF validation.kind = "throw"
                 THEN RejectsWith(validation.error, <<"validateEntityComponents">>)
                 ELSE Sends(JsonRequest("POST", <<"/entities">>,
                                        Put(payload, Key.components, componentsToRecord(comps).value),
                                        Undefined),
                            <<"validateEntityComponents", "componentsToRecord", "request">>)
        ELSE Sends(JsonRequest("POST", <<"/entities">>, payload, Undefined), <<"request">>)

\* createEntity without the call of validateEntityComponents
createEntity_SkipsValidation(entityId, entityType, alias, subtype, comps) ==
    LET payload == Obj(<<<<Key.entity_id, entityId>>, <<Key.entity_type, entityType>>,
                         <<Key.alias, alias>>, <<Key.subtype, subtype>>>>)
    IN  IF comps # Undefined
        THEN Sends(JsonRequest("POST", <<"/entities">>,
                               Put(payload, Key.components, componentsToRecord(comps).value),
                               Undefined),
                   <<"componentsToRecord", "request">>)
        ELSE Sends(JsonRequest("POST", <<"/entities">>, payload, Undefined), <<"request">>)

createEntity(entityId, entityType, alias, subtype, comps) ==
    LET payload == Obj(<<<<Key.entity_id, entityId>>, <<Key.entity_type, entityType>>,
                         <<Key.alias, alias>>, <<Key.subtype, subtype>>>>)
    IN  IF comps # Undefined
        THEN LET validation == validateEntityComponents(comps).completion
             IN  IF validation.kind = "throw"
                 THEN Throws(validation.error, <<"validateEntityComponents">>)
                 ELSE Sends(JsonRequest("POST", <<"/entities">>,
                                        Put(payload, Key.components, componentsToRecord(comps).value),
                                        Undefined),
                            <<"validateEntityComponents", "componentsToRecord", "request">>)
        ELSE Sends(JsonRequest("POST", <<"/entities">>, payload, Undefined), <<"request">>)

\* updateEntity that looks at options where the method looks at options.subtype
updateEntity_RequiresOptions(entityId, comps, options) ==
    IF comps = Undefined /\ options = Undefined
    THEN Throws(MessageError("AtlasHttpClient.updateEntity requires a components payload or subtype."), <<>>)
    ELSE LET validation == IF comps # Undefined
                           THEN validateEntityComponents(comps).completion
                           ELSE Return(Undefined)
             withComponents == IF comps # Undefined
                               THEN Put(Obj(<<>>), Key.components, componentsToRecord(comps).value)
                               ELSE Obj(<<>>)
             payload == PutIfDefined(withComponents, Key.subtype, Prop(options, Key.subtype))
         IN  IF validation.kind = "throw"
             THEN Throws(validation.error, <<"validateEntityComponents">>)
             ELSE Sends(JsonRequest("PATCH", <<"/entities/", ToStr(entityId)>>, payload, Undefined),
                        IF comps # Undefined
                        THEN <<"validateEntityComponents", "componentsToRecord", "request">>
                        ELSE <<"request">>)

updateEntity(entityId, comps, options) ==
    IF comps = Undefined /\ Prop(options, Key.subtype) = Undefined
    THEN Throws(MessageError("AtlasHttpClient.updateEntity requires a components payload or subtype."), <<>>)
    ELSE LET validation == IF comps # Undefined
                           THEN validateEntityComponents(comps).completion
                           ELSE Return(Undefined)
             withComponents == IF comps # Undefined
                               THEN Put(Obj(<<>>), Key.components, componentsToRecord(comps).value)
                               ELSE Obj(<<>>)
             payload == PutIfDefined(withComponents, Key.subtype, Prop(options, Key.subtype))
         IN  IF validation.kind = "throw"
             THEN Throws(validation.error, <<"validateEntityComponents">>)
             ELSE Sends(JsonRequest("PATCH", <<"/entities/", ToStr(entityId)>>, payload, Undefined),
                        IF comps # Undefined
                        THEN <<"validateEntityComponents", "componentsToRecord", "request">>
                        ELSE <<"request">>)

\* The payload updateEntityTelemetry builds from its options.
TelemetryPayload(options) ==
    LET p1 == PutIfDefined(Obj(<<>>), Key.latitude, Prop(options, Key.latitude))
        p2 == PutIfDefined(p1, Key.longitude, Prop(options, Key.longitude))
        p3 == PutIfDefined(p2, Key.altitude_m, Prop(options, Key.altitude_m))
        p4 == PutIfDefined(p3, Key.speed_m_s, Prop(options, Key.speed_m_s))
    IN  PutIfDefined(p4, Key.heading_deg, Prop(options, Key.heading_deg))

updateEntityTelemetry(entityId, options) ==
    Sends(JsonRequest("PATCH", <<"/entities/", ToStr(entityId), "/telemetry">>,
                      TelemetryPayload(options), Undefined),
          <<"request">>)

checkinEntity(entityId, telemetryFields, options) ==
    LET payload == PutIfDefined(Obj(Entries(telemetryFields)), Key.status,
                                Prop(options, Key.status))
        params == Obj(<<<<Key.status_filter,
                          OrElse(Prop(options, Key.status_filter), Str("pending,acknowledged"))>>,
                        <<Key.limit, OrElse(Prop(options, Key.limit), Num(10))>>,
                        <<Key.since, Prop(options, Key.since)>>,
                        <<Key.fields, Prop(options, Key.fields)>>>>)
    IN  Sends(JsonRequest("POST", <<"/entities/", ToStr(entityId), "/checkin">>, payload, params),
              <<"request">>)

\* createTask that sends the components as they were given
createTask_SendsComponentsAsGiven(taskId, comps, options) ==
    LET givenStatus == Prop(options, Key.status)
        p0 == Obj(<<<<Key.task_id, taskId>>,
                    <<Key.status, IF IsFalsy(givenStatus) THEN Str("pending") ELSE givenStatus>>>>)
        p1 == PutIfDefined(p0, Key.entity_id, Prop(options, Key.entity_id))
        p2 == PutIfDefined(p1, Key.components, comps)
        p3 == PutIfDefined(p2, Key.extra, Prop(options, Key.extra))
    IN  Sends(JsonRequest("POST", <<"/tasks">>, p3, Undefined),
              IF comps # Undefined THEN <<"componentsToRecord", "request">> ELSE <<"request">>)

\* createTask with `options?.status ?? "pending"`
createTask_DefaultsWhenNullish(taskId, comps, options) ==
    LET p0 == Obj(<<<<Key.task_id, taskId>>,
                    <<Key.status, OrElse(Prop(options, Key.status), Str("pending"))>>>>)
        p1 == PutIfDefined(p0, Key.entity_id, Prop(options, Key.entity_id))
        p2 == IF comps # Undefined
              THEN Put(p1, Key.components, componentsToRecord(comps).value)
              ELSE p1
        p3 == PutIfDefined(p2, Key.extra, Prop(options, Key.extra))
    IN  Sends(JsonRequest("POST", <<"/tasks">>, p3, Undefined),
              IF comps # Undefined THEN <<"componentsToRecord", "request">> ELSE <<"request">>)

createTask(taskId, comps, options) ==
    LET givenStatus == Prop(options, Key.status)
        p0 == Obj(<<<<Key.task_id, taskId>>,
                    <<Key.status, IF IsFalsy(givenStatus) THEN Str("pending") ELSE givenStatus>>>>)
        p1 == PutIfDefined(p0, Key.entity_id, Prop(options, Key.entity_id))
        p2 == IF comps # Undefined
              THEN Put(p1, Key.components, componentsToRecord(comps).value)
              ELSE p1
        p3 == PutIfDefined(p2, Key.extra, Prop(options, Key.extra))
    IN  Sends(JsonRequest("POST", <<"/tasks">>, p3, Undefined),
              IF comps # Undefined THEN <<"componentsToRecord", "request">> ELSE <<"request">>)

\* updateTask that rejects where the method throws
updateTask_Rejects(taskId, comps, options) ==
    IF comps = Undefined /\ options = Undefined
    THEN RejectsWith(MessageError("AtlasHttpClient.updateTask requires a components payload or options."), <<>>)
    ELSE LET p1 == IF comps # Undefined
                   THEN Put(Obj(<<>>), Key.components, componentsToRecord(comps).value)
                   ELSE Obj(<<>>)
             p2 == PutIfDefined(p1, Key.status, Prop(options, Key.status))
             p3 == PutIfDefined(p2, Key.entity_id, Prop(options, Key.entity_id))
             p4 == PutIfDefined(p3, Key.extra, Prop(options, Key.extra))
         IN  Sends(JsonRequest("PATCH", <<"/tasks/", ToStr(taskId)>>, p4, Undefined),
                   IF comps # Undefined THEN <<"componentsToRecord", "request">> ELSE <<"request">>)

updateTask(taskId, comps, options) ==
    IF comps = Undefined /\ options = Undefined
    THEN Throws(MessageError("AtlasHttpClient.updateTask requires a components payload or options."), <<>>)
    ELSE LET p1 == IF comps # Undefined
                   THEN Put(Obj(<<>>), Key.components, componentsToRecord(comps).value)
                   ELSE Obj(<<>>)
             p2 == PutIfDefined(p1, Key.status, Prop(options, Key.status))
             p3 == PutIfDefined(p2, Key.entity_id, Prop(options, Key.entity_id))
             p4 == PutIfDefined(p3, Key.extra, Prop(options, Key.extra))
         IN  Sends(JsonRequest("PATCH", <<"/tasks/", ToStr(taskId)>>, p4, Undefined),
                   IF comps # Undefined THEN <<"componentsToRecord", "request">> ELSE <<"request">>)

completeTask(taskId, taskResult) ==
    Sends(JsonRequest("POST", <<"/tasks/", ToStr(taskId), "/complete">>,
                      PutIfDefined(Obj(<<>>), Key.result, taskResult), Undefined),
          <<"request">>)

transitionTaskStatus(taskId, taskStatus, options) ==
    LET p0 == Obj(<<<<Key.status, taskStatus>>,
                    <<Key.validate, OrElse(Prop(options, Key.validate), Bool(TRUE))>>>>)
    IN  Sends(JsonRequest("POST", <<"/tasks/", ToStr(taskId), "/status">>,
                          PutIfDefined(p0, Key.extra, Prop(options, Key.extra)), Undefined),
              <<"request">>)

failTask(taskId, errorMessage, errorDetails) ==
    LET p1 == PutIfDefined(Obj(<<>>), Key.error_message, errorMessage)
    IN  Sends(JsonRequest("POST", <<"/tasks/", ToStr(taskId), "/fail">>,
                          PutIfDefined(p1, Key.error_details, errorDetails), Undefined),
              <<"request">>)

downloadObject(objectId) ==
    Sends(FetchRequest(<<"/objects/", ToStr(objectId), "/download">>), <<"fetchImpl">>)

viewObject(objectId) ==
    Sends(FetchRequest(<<"/objects/", ToStr(objectId), "/view">>), <<"fetchImpl">>)

\* The fields createObject appends to its FormData, in order.  file is the
\* record of the Blob's type and, for a File, its name.
UploadForm(file, objectId, usageHint) ==
    LET filename == OrElse(file.name, Str("upload.bin"))
        fields == <<<<"object_id", objectId>>, <<"file", file.type, filename>>>>
    IN  IF IsFalsy(usageHint) THEN fields
        ELSE Append(fields, <<"usage_hint", usageHint>>)

\* createObject up to `await this.multipartRequest(...)`.  The method is
\* async: its throw is the rejection of the promise it returns.
createObject(file, objectId, usageHint) ==
    IF IsFalsy(file.type)
    THEN RejectsWith(MessageError("AtlasHttpClient.createObject requires a content type."), <<>>)
    ELSE Sends(MultipartRequest(<<"/objects/upload">>, UploadForm(file, objectId, usageHint)),
               <<"multipartRequest">>)

createObjectMetadata(objectId, options) ==
    LET payload == Obj(<<<<Key.object_id, objectId>>,
                         <<Key.path, Prop(options, Key.path)>>,
                         <<Key.bucket, Prop(options, Key.bucket)>>,
                         <<Key.size_bytes, Prop(options, Key.size_bytes)>>,
                         <<Key.content_type, Prop(options, Key.content_type)>>,
                         <<Key.type, Prop(options, Key.type)>>,
                         <<Key.usage_hints, Prop(options, Key.usage_hints)>>,
                         <<Key.referenced_by, Prop(options, Key.referenced_by)>>,
                         <<Key.extra, Prop(options, Key.extra)>>>>)
    IN  Sends(JsonRequest("POST", <<"/objects">>, payload, Undefined), <<"request">>)

\* updateObject that throws where the method returns Promise.reject
updateObject_Throws(objectId, usageHints, referencedBy) ==
    IF usageHints = Undefined /\ referencedBy = Undefined
    THEN Throws(MessageError("AtlasHttpClient.updateObject requires usageHints or referencedBy to make an update."), <<>>)
    ELSE LET p1 == PutIfDefined(Obj(<<>>), Key.usage_hints, usageHints)
             p2 == PutIfDefined(p1, Key.referenced_by, referencedBy)
         IN  Sends(JsonRequest("PATCH", <<"/objects/", ToStr(objectId)>>, p2, Undefined),
                   <<"request">>)

updateObject(objectId, usageHints, referencedBy) ==
    IF usageHints = Undefined /\ referencedBy = Undefined
    THEN RejectsWith(MessageError("AtlasHttpClient.updateObject requires usageHints or referencedBy to make an update."), <<>>)
    ELSE LET p1 == PutIfDefined(Obj(<<>>), Key.usage_hints, usageHints)
             p2 == PutIfDefined(p1, Key.referenced_by, referencedBy)
         IN  Sends(JsonRequest("PATCH", <<"/objects/", ToStr(objectId)>>, p2, Undefined),
                   <<"request">>)

addObjectReference(objectId, entityId, taskId) ==
    LET p1 == PutIfDefined(Obj(<<>>), Key.entity_id, entityId)
    IN  Sends(JsonRequest("POST", <<"/objects/", ToStr(objectId), "/references">>,
                          PutIfDefined(p1, Key.task_id, taskId), Undefined),
              <<"request">>)

removeObjectReference(objectId, entityId, taskId) ==
    LET p1 == PutIfDefined(Obj(<<>>), Key.entity_id, entityId)
    IN  Sends(JsonRequest("DELETE", <<"/objects/", ToStr(objectId), "/references">>,
                          PutIfDefined(p1, Key.task_id, taskId), Undefined),
              <<"request">>)

----------------------------------------------------------------------------
(* AtlasHttpClient: the methods after a response arrives *)

\* Where a call that waits for a response resumes.
Awaiting(stage, stored, index) == [stage |-> stage, stored |-> stored, index |-> index]
Finished == Awaiting("done", Undefined, 0)

\* The call settles; a call that sends its next request and waits again
\* has a pending settlement, that request and the place where it resumes.
Settles(ending, bodyReads) ==
    [settlement |-> ending, reads |-> bodyReads, request |-> Undefined, continuation |-> Finished]

\* The methods that return this.request(...)
AfterRequest(response) ==
    Settles(AwaitJson(response).settlement, AwaitJson(response).reads)

\* Number(text) of a header's text; <<"NaN">> is NaN
NumberOf(text) ==
    IF \A i \in 1..Len(text) : text[i] \in Digits
    THEN Num(NumericValue(text))
    ELSE <<"NaN">>

\* response.headers.get("content-type") || undefined
ContentTypeOf(response) ==
    IF response.contentType = Null \/ response.contentType = Str("")
    THEN Undefined
    ELSE response.contentType

\* lengthHeader && !Number.isNaN(Number(lengthHeader)) ? Number(lengthHeader) : undefined
ContentLengthOf(response) ==
    IF response.contentLength = Null \/ response.contentLength = <<>>
    THEN Undefined
    ELSE IF NumberOf(response.contentLength) = <<"NaN">>
         THEN Undefined
         ELSE NumberOf(response.contentLength)

\* downloadObject after `await this.fetchImpl(...)`
downloadObjectAfter(response) ==
    IF ~Ok(response)
    THEN Settles(Rejected(HttpError(response)), <<"text">>)
    ELSE Settles(Resolved(<<"download",
                            [data |-> <<"bytes", response.body>>,
                             contentType |-> ContentTypeOf(response),
                             contentLength |-> ContentLengthOf(response)]>>),
                 <<"arrayBuffer">>)

\* viewObject after `await this.fetchImpl(...)`
viewObjectAfter(response) ==
    IF ~Ok(response)
    THEN Settles(Rejected(HttpError(response)), <<"text">>)
    ELSE Settles(Resolved(<<"view",
                            [data |-> response.body,
                             contentType |-> ContentTypeOf(response),
                             contentLength |-> ContentLengthOf(response)]>>),
                 <<"text">>)

\* createObject's loop `for (const reference of referencedBy)` from its
\* index-th reference on: the next addObjectReference, or `return stored`.
AttachFrom(referencedBy, stored, index, bodyReads) ==
    IF index > Len(Items(referencedBy))
    THEN Settles(Resolved(stored), bodyReads)
    ELSE LET reference == Items(referencedBy)[index]
         IN  [settlement |-> Pending,
              reads |-> bodyReads,
              request |-> addObjectReference(Prop(stored, Key.object_id),
                                             Prop(reference, Key.entity_id),
                                             Prop(reference, Key.task_id)).request,
              continuation |-> Awaiting("reference", stored, index)]

\* createObject after `await this.multipartRequest(...)`.  stored is
\* undefined after a 204 response, and stored["object_id"] then throws.
createObjectAfterUpload(referencedBy, response) ==
    LET awaited == AwaitJson(response)
        stored == awaited.settlement.value
    IN  IF awaited.settlement.kind = "rejected"
        THEN Settles(awaited.settlement, awaited.reads)
        ELSE IF IsNullish(stored)
             THEN Settles(Rejected(TypeError), awaited.reads)
             ELSE IF referencedBy # Undefined /\ Prop(stored, Key.object_id) # Undefined
                  THEN AttachFrom(referencedBy, stored, 1, awaited.reads)
                  ELSE IF referencedBy # Undefined
                       THEN Settles(Rejected(MessageError("AtlasHttpClient.createObject expected the upload response to include an object_id before attaching references.")), awaited.reads)
                       ELSE Settles(Resolved(stored), awaited.reads)

\* createObject that goes on to the next reference after a failed one
createObjectAfterReference_IgnoresFailure(referencedBy, resumeAt, response) ==
    AttachFrom(referencedBy, resumeAt.stored, resumeAt.index + 1,
               AwaitJson(response).reads)

\* createObject after `await this.addObjectReference(...)`
createObjectAfterReference(referencedBy, resumeAt, response) ==
    LET awaited == AwaitJson(response)
    IN  IF awaited.settlement.kind = "rejected"
        THEN Settles(awaited.settlement, awaited.reads)
        ELSE AttachFrom(referencedBy, resumeAt.stored, resumeAt.index + 1,
                        awaited.reads)

----------------------------------------------------------------------------
(* The calls a program makes on a client, and the responses of a server *)

EntityId == Str("entity-1")
TaskId == Str("task-1")
ObjectId == Str("obj-1")

\* Component mappings: absent, empty, typed, with a null field, with an
\* undefined array element, with an unknown key alone and after a known one.
ComponentArgs ==
    {Undefined,
     Obj(<<>>),
     Obj(<<<<telemetry, Obj(<<<<latitude, Num(1)>>>>)>>>>),
     Obj(<<<<telemetry, Obj(<<<<latitude, Null>>>>)>>>>),
     Obj(<<<<health, Null>>>>),
     Obj(<<<<custom_weather, Arr(<<Undefined, Num(0)>>)>>>>),
     Obj(<<<<unknown_key, Str("start")>>>>),
     Obj(<<<<telemetry, Obj(<<>>)>>, <<unknown_key, Null>>>>)}

EntityOptions ==
    {Undefined,
     Obj(<<>>),
     Obj(<<<<Key.subtype, Undefined>>>>),
     Obj(<<<<Key.subtype, Str("drone")>>>>)}

TaskOptions ==
    {Undefined,
     Obj(<<>>),
     Obj(<<<<Key.status, Undefined>>>>),
     Obj(<<<<Key.status, Str("")>>>>),
     Obj(<<<<Key.status, Str("done")>>>>),
     Obj(<<<<Key.entity_id, EntityId>>>>),
     Obj(<<<<Key.extra, Obj(<<<<Key.note, Str("x")>>>>)>>>>)}

\* Options of checkinEntity: absent, empty, every filter given, a filter
\* that is null, the empty string and zero.
CheckinOptions ==
    {Undefined,
     Obj(<<>>),
     Obj(<<<<Key.status_filter, Str("pending")>>, <<Key.limit, Num(5)>>,
           <<Key.since, Str("2025-01-01")>>, <<Key.fields, Str("minimal")>>>>),
     Obj(<<<<Key.since, Null>>, <<Key.fields, Str("minimal")>>>>),
     Obj(<<<<Key.status_filter, Str("")>>, <<Key.limit, Num(0)>>>>)}

UsageHintsArgs == {Undefined, Arr(<<>>), Arr(<<Str("thumbnail")>>)}

\* Most references in a referencedBy argument.
MaxReferences == 2

References == {Obj(<<<<Key.entity_id, EntityId>>>>), Obj(<<<<Key.task_id, TaskId>>>>)}

ReferencedByArgs ==
    {Undefined} \cup
    {Arr(items) : items \in UNION {[1..n -> References] : n \in 0..MaxReferences}}

\* A Blob (name undefined) or a File, by type and name.
Files ==
    {[type |-> fileType, name |-> fileName] :
        fileType \in {Str(""), Str("text/plain")},
        fileName \in {Undefined, Str("a.txt")}}

UsageHintArgs == {Undefined, Str(""), Str("thumbnail")}

\* A call: the method and the arguments the model varies; the other
\* arguments are the ids above and the parameters' defaults.
MethodCall(method, comps, options, hints, referencedBy, file) ==
    [method |-> method, comps |-> comps, options |-> options, hints |-> hints,
     referencedBy |-> referencedBy, file |-> file]

NoFile == [type |-> Undefined, name |-> Undefined]
NoCall == MethodCall("none", Undefined, Undefined, Undefined, Undefined, NoFile)

\* The methods whose arguments the model does not vary.
PlainMethods ==
    {"getRoot", "getHealth", "getReadiness", "listEntities", "getEntity",
     "getEntityByAlias", "deleteEntity", "updateEntityTelemetry",
     "listTasks", "getTask", "deleteTask", "getTasksByEntity", "acknowledgeTask",
     "startTask", "completeTask", "transitionTaskStatus", "failTask",
     "downloadObject", "viewObject", "listObjects", "getObject",
     "createObjectMetadata", "deleteObject", "getObjectsByEntity",
     "getObjectsByTask", "addObjectReference", "removeObjectReference",
     "findOrphanedObjects", "getObjectReferences", "validateObjectReferences",
     "cleanupObjectReferences", "getChangedSince", "getFullDataset"}

Calls ==
    {MethodCall(m, Undefined, Undefined, Undefined, Undefined, NoFile) : m \in PlainMethods}
    \cup {MethodCall("checkinEntity", Undefined, o, Undefined, Undefined, NoFile) :
            o \in CheckinOptions}
    \cup {MethodCall("createEntity", c, Undefined, Undefined, Undefined, NoFile) :
            c \in ComponentArgs}
    \cup {MethodCall("updateEntity", c, o, Undefined, Undefined, NoFile) :
            c \in ComponentArgs, o \in EntityOptions}
    \cup {MethodCall(m, c, o, Undefined, Undefined, NoFile) :
            m \in {"createTask", "updateTask"}, c \in ComponentArgs, o \in TaskOptions}
    \cup {MethodCall("updateObject", Undefined, Undefined, h, r, NoFile) :
            h \in UsageHintsArgs, r \in ReferencedByArgs}
    \cup {MethodCall("createObject", Undefined, Undefined, h, r, f) :
            h \in UsageHintArgs, r \in ReferencedByArgs, f \in Files}

\* return this.request(method, path, body, params)
Requests(method, path, body, params) ==
    Sends(JsonRequest(method, path, body, params), <<"request">>)

\* The synchronous part of a call.  The methods that only pass a path and
\* query parameters on to request() are written out here; a parameter with
\* a default takes it: listEntities(limit = 100, offset = 0),
\* listTasks(limit = 25, status, offset = 0), listObjects(limit = 100,
\* offset = 0), getObjectsByEntity(.., limit = 50, offset = 0),
\* findOrphanedObjects(limit = 100).
Invoke(c) ==
    CASE c.method = "getRoot" -> Requests("GET", <<"/">>, Undefined, Undefined)
      [] c.method = "getHealth" -> Requests("GET", <<"/health">>, Undefined, Undefined)
      [] c.method = "getReadiness" -> Requests("GET", <<"/readiness">>, Undefined, Undefined)
      [] c.method = "listEntities" ->
            Requests("GET", <<"/entities">>, Null, Obj(<<<<Key.limit, Num(100)>>, <<Key.offset, Num(0)>>>>))
      [] c.method = "getEntity" ->
            Requests("GET", <<"/entities/", ToStr(EntityId)>>, Undefined, Undefined)
      [] c.method = "getEntityByAlias" ->
            Requests("GET", <<"/entities/alias/", ToStr(Str("alpha"))>>, Undefined, Undefined)
      [] c.method = "createEntity" ->
            createEntity(EntityId, Str("asset"), Str("alpha"), Str("drone"), c.comps)
      [] c.method = "updateEntity" -> updateEntity(EntityId, c.comps, c.options)
      [] c.method = "deleteEntity" ->
            Requests("DELETE", <<"/entities/", ToStr(EntityId)>>, Undefined, Undefined)
      [] c.method = "updateEntityTelemetry" ->
            updateEntityTelemetry(EntityId, Obj(<<<<Key.latitude, Num(1)>>>>))
      [] c.method = "checkinEntity" ->
            checkinEntity(EntityId, Obj(<<<<Key.latitude, Num(1)>>>>), c.options)
      [] c.method = "listTasks" ->
            Requests("GET", <<"/tasks">>, Null, Obj(<<<<Key.limit, Num(25)>>, <<Key.status, Undefined>>,
                           <<Key.offset, Num(0)>>>>))
      [] c.method = "getTask" ->
            Requests("GET", <<"/tasks/", ToStr(TaskId)>>, Undefined, Undefined)
      [] c.method = "createTask" -> createTask(TaskId, c.comps, c.options)
      [] c.method = "updateTask" -> updateTask(TaskId, c.comps, c.options)
      [] c.method = "deleteTask" ->
            Requests("DELETE", <<"/tasks/", ToStr(TaskId)>>, Undefined, Undefined)
      [] c.method = "getTasksByEntity" ->
            Requests("GET", <<"/entities/", ToStr(EntityId), "/tasks">>, Null,
                     Obj(<<<<Key.limit, Num(25)>>, <<Key.status, Undefined>>,
                           <<Key.offset, Num(0)>>>>))
      [] c.method \in {"acknowledgeTask", "startTask"} ->
            Requests("POST", <<"/tasks/", ToStr(TaskId), "/acknowledge">>, Obj(<<>>), Undefined)
      [] c.method = "completeTask" -> completeTask(TaskId, Undefined)
      [] c.method = "transitionTaskStatus" ->
            transitionTaskStatus(TaskId, Str("done"), Undefined)
      [] c.method = "failTask" -> failTask(TaskId, Str("lost link"), Undefined)
      [] c.method = "downloadObject" -> downloadObject(ObjectId)
      [] c.method = "viewObject" -> viewObject(ObjectId)
      [] c.method = "listObjects" ->
            Requests("GET", <<"/objects">>, Null,
                     Obj(<<<<Key.limit, Num(100)>>, <<Key.offset, Num(0)>>,
                           <<Key.content_type, Undefined>>, <<Key.type, Undefined>>>>))
      [] c.method = "getObject" ->
            Requests("GET", <<"/objects/", ToStr(ObjectId)>>, Undefined, Undefined)
      [] c.method = "createObject" -> createObject(c.file, ObjectId, c.hints)
      [] c.method = "createObjectMetadata" -> createObjectMetadata(ObjectId, Undefined)
      [] c.method = "updateObject" -> updateObject(ObjectId, c.hints, c.referencedBy)
      [] c.method = "deleteObject" ->
            Requests("DELETE", <<"/objects/", ToStr(ObjectId)>>, Undefined, Undefined)
      [] c.method = "getObjectsByEntity" ->
            Requests("GET", <<"/entities/", ToStr(EntityId), "/objects">>, Null,
                     Obj(<<<<Key.limit, Num(50)>>, <<Key.offset, Num(0)>>>>))
      [] c.method = "getObjectsByTask" ->
            Requests("GET", <<"/tasks/", ToStr(TaskId), "/objects">>, Null,
                     Obj(<<<<Key.limit, Num(50)>>, <<Key.offset, Num(0)>>>>))
      [] c.method = "addObjectReference" -> addObjectReference(ObjectId, EntityId, Undefined)
      [] c.method = "removeObjectReference" ->
            removeObjectReference(ObjectId, Undefined, TaskId)
      [] c.method = "findOrphanedObjects" ->
            Requests("GET", <<"/objects/orphaned">>, Null, Obj(<<<<Key.limit, Num(100)>>>>))
      [] c.method = "getObjectReferences" ->
            Requests("GET", <<"/objects/", ToStr(ObjectId), "/references/info">>,
                     Undefined, Undefined)
      [] c.method = "validateObjectReferences" ->
            Requests("GET", <<"/objects/", ToStr(ObjectId), "/references/validate">>,
                     Undefined, Undefined)
      [] c.method = "cleanupObjectReferences" ->
            Requests("POST", <<"/objects/", ToStr(ObjectId), "/references/cleanup">>,
                     Obj(<<>>), Undefined)
      [] c.method = "getChangedSince" ->
            Requests("GET", <<"/queries/changed-since">>, Null,
                     Obj(<<<<Key.since, Str("2024-01-01")>>,
                           <<Key.limit_per_type, Undefined>>>>))
      [] c.method = "getFullDataset" ->
            Requests("GET", <<"/queries/full">>, Null,
                     Obj(<<<<Key.entity_limit, Undefined>>, <<Key.task_limit, Undefined>>,
                           <<Key.object_limit, Undefined>>>>))

\* Where the call waits after its first request.
FirstAwait(c) ==
    CASE c.method = "createObject" -> Awaiting("upload", Undefined, 0)
      [] c.method = "downloadObject" -> Awaiting("download", Undefined, 0)
      [] c.method = "viewObject" -> Awaiting("view", Undefined, 0)
      [] OTHER -> Awaiting("request", Undefined, 0)

\* The call resumed with the response to the request it waits for.
Resume(c, resumeAt, response) ==
    CASE resumeAt.stage = "request" -> AfterRequest(response)
      [] resumeAt.stage = "download" -> downloadObjectAfter(response)
      [] resumeAt.stage = "view" -> viewObjectAfter(response)
      [] resumeAt.stage = "upload" -> createObjectAfterUpload(c.referencedBy, response)
      [] resumeAt.stage = "reference" ->
            createObjectAfterReference(c.referencedBy, resumeAt, response)

\* What a server may answer.
Statuses == {200, 201, 204, 404, 500}

Bodies ==
    {JsonText(Obj(<<<<Key.object_id, Str("obj-123")>>>>)),
     JsonText(Obj(<<<<Key.success, Bool(TRUE)>>>>)),
     PlainText("not found"), PlainText("")}

Response(responseStatus, body, contentType, contentLength) ==
    [status |-> responseStatus, body |-> body,
     contentType |-> contentType, contentLength |-> contentLength]

\* The responses to a request: a 204 response has no body; the model
\* varies the content headers on the requests whose methods read them.
ResponsesTo(req) ==
    IF req.kind = "fetch"
    THEN {Response(s, IF s = 204 THEN PlainText("") ELSE PlainText("data"), t, l) :
            s \in Statuses,
            t \in {Null, Str(""), Str("text/plain")},
            l \in {Null, <<>>, <<"3">>, <<"a", "b", "c">>}}
    ELSE {Response(s, b, Null, Null) : s \in Statuses \ {204}, b \in Bodies}
         \cup {Response(204, PlainText(""), Null, Null)}

----------------------------------------------------------------------------
(* AtlasHttpClient: construction, headers and the calls of fetchImpl *)

\* The constructor that takes globalThis.fetch whenever it is a function
constructor_PrefersGlobal(opts, fetch) ==
    LET stripped == IF opts.baseUrl # <<>> /\ opts.baseUrl[Len(opts.baseUrl)] = "/"
                    THEN SubSeq(opts.baseUrl, 1, Len(opts.baseUrl) - 1)
                    ELSE opts.baseUrl
        defaultFetch == IF TypeTag(fetch) = "function" THEN <<"function", "globalThis.fetch">> ELSE Undefined
        resolvedFetch == OrElse(defaultFetch, opts.fetchImpl)
    IN  IF IsFalsy(resolvedFetch)
        THEN [built |-> "threw", baseUrl |-> stripped, token |-> opts.token,
              fetchImpl |-> Undefined,
              error |-> MessageError("fetch is not available; provide fetchImpl")]
        ELSE [built |-> "yes", baseUrl |-> stripped, token |-> opts.token,
              fetchImpl |-> resolvedFetch, error |-> NoError]

\* new AtlasHttpClient(opts) where globalThis.fetch is `fetch`.  The base URL
\* is a sequence of pieces of text, a trailing "/" being a piece of its own;
\* a function is <<"function", name>>, the bound global fetch by the name
\* globalThis.fetch.
constructor(opts, fetch) ==
    LET stripped == IF opts.baseUrl # <<>> /\ opts.baseUrl[Len(opts.baseUrl)] = "/"
                    THEN SubSeq(opts.baseUrl, 1, Len(opts.baseUrl) - 1)
                    ELSE opts.baseUrl
        defaultFetch == IF TypeTag(fetch) = "function" THEN <<"function", "globalThis.fetch">> ELSE Undefined
        resolvedFetch == OrElse(opts.fetchImpl, defaultFetch)
    IN  IF IsFalsy(resolvedFetch)
        THEN [built |-> "threw", baseUrl |-> stripped, token |-> opts.token,
              fetchImpl |-> Undefined,
              error |-> MessageError("fetch is not available; provide fetchImpl")]
        ELSE [built |-> "yes", baseUrl |-> stripped, token |-> opts.token,
              fetchImpl |-> resolvedFetch, error |-> NoError]

\* headers() that tests `this.token !== undefined`
headers_WhenTokenDefined(this) ==
    IF this.token = Undefined
    THEN << <<"Content-Type", <<"application/json">>>> >>
    ELSE << <<"Content-Type", <<"application/json">>>>,
            <<"Authorization", <<"Bearer ", ToStr(this.token)>>>> >>

\* this.headers(): the header names with their text, in pieces
headers(this) ==
    IF IsFalsy(this.token)
    THEN << <<"Content-Type", <<"application/json">>>> >>
    ELSE << <<"Content-Type", <<"application/json">>>>,
            <<"Authorization", <<"Bearer ", ToStr(this.token)>>>> >>

\* this.multipartHeaders()
multipartHeaders(this) ==
    IF IsFalsy(this.token)
    THEN <<>>
    ELSE << <<"Authorization", <<"Bearer ", ToStr(this.token)>>>> >>

\* The call this.fetchImpl(url.toString(), { method, headers, body }) made
\* for a request: request() and the download and view methods pass
\* this.headers(), multipartRequest() passes this.multipartHeaders().
TransportCall(this, req) ==
    [via |-> this.fetchImpl,
     url |-> [base |-> this.baseUrl, path |-> req.path, query |-> req.query],
     method |-> req.method,
     headers |-> IF req.kind = "multipart" THEN multipartHeaders(this) ELSE headers(this),
     body |-> req.body,
     kind |-> req.kind]

\* Options of the constructor: with and without a trailing slash, a token
\* and a fetchImpl; a token that is the empty string, a fetchImpl that is null.
ClientOptionsArgs ==
    {[baseUrl |-> <<"http://atlas.local">>, token |-> Undefined, fetchImpl |-> Undefined],
     [baseUrl |-> <<"http://atlas.local">>, token |-> Str("secret"), fetchImpl |-> Undefined],
     [baseUrl |-> <<"http://atlas.local", "/">>, token |-> Str("secret"),
      fetchImpl |-> <<"function", "fetchImpl">>],
     [baseUrl |-> <<"http://atlas.local">>, token |-> Str(""), fetchImpl |-> <<"function", "fetchImpl">>],
     [baseUrl |-> <<"http://atlas.local", "/">>, token |-> Undefined, fetchImpl |-> Null]}

\* Most operations in flight on a client at the same time.
MaxInFlight == 2

\* The calls made on a client with other calls in flight: a JSON request
\* with a body, a download, a view, an update that is rejected before any
\* request, and uploads with no reference and with one reference to attach.
SessionCalls ==
    {MethodCall(m, Undefined, Undefined, Undefined, Undefined, NoFile) :
        m \in {"downloadObject", "viewObject", "updateObject"}}
    \cup {MethodCall("createEntity", Obj(<<<<telemetry, Obj(<<<<latitude, Num(1)>>>>)>>>>),
                     Undefined, Undefined, Undefined, NoFile)}
    \cup {MethodCall("createObject", Undefined, Undefined, Undefined, r,
                     [type |-> Str("text/plain"), name |-> Str("a.txt")]) :
            r \in {Undefined, Arr(<<Obj(<<<<Key.entity_id, EntityId>>>>)>>)}}

\* The answers of the server to the calls in flight: the stored document
\* or the data with 200, no content with 204, an error text with 500.
SessionResponses(req) ==
    {response \in ResponsesTo(req) :
        /\ response.status \in {200, 204, 500}
        /\ response.body =
              IF response.status = 204 THEN PlainText("")
              ELSE IF req.kind = "fetch" THEN PlainText("data")
              ELSE IF response.status = 200
                   THEN JsonText(Obj(<<<<Key.object_id, Str("obj-123")>>>>))
                   ELSE PlainText("not found")
        /\ req.kind = "fetch" =>
              /\ response.contentType = Str("text/plain")
              /\ response.contentLength = <<"3">>}

----------------------------------------------------------------------------
(* The states in which a part of the model rests *)

ClientIdle ==
    /\ call = NoCall
    /\ phase = "idle"
    /\ settlement = Pending
    /\ sent = <<>>
    /\ received = <<>>
    /\ reads = <<>>
    /\ steps = <<>>
    /\ continuation = Finished

DataIdle ==
    /\ components = Undefined
    /\ source = Undefined
    /\ op = "none"
    /\ outcome = "pending"
    /\ result = Undefined
    /\ error = NoError
    /\ examined = <<>>
    /\ passes = 0
    /\ heap = <<>>
    /\ heapBefore = <<>>
    /\ arg = Undefined
    /\ ret = Undefined

\* No client is constructed and no operation has started; globalThis.fetch
\* is one of `fetches`.
SessionIdle(fetches) ==
    /\ globalFetch \in fetches
    /\ clientOptions = Undefined
    /\ client = [built |-> "no", baseUrl |-> <<>>, token |-> Undefined,
                 fetchImpl |-> Undefined, error |-> NoError]
    /\ flights = [i \in 1..MaxInFlight |->
                    [call |-> NoCall, phase |-> "idle", settlement |-> Pending,
                     sent |-> <<>>, received |-> <<>>, continuation |-> Finished]]

----------------------------------------------------------------------------
(* The state machine: a caller builds a mapping and calls the functions *)

Init ==
    /\ components \in Mappings \cup {Undefined}
    /\ source = components
    /\ op = "none"
    /\ outcome = "pending"
    /\ result = Undefined
    /\ error = NoError
    /\ examined = <<>>
    /\ passes = 0
    /\ heap = LoadValue(<<>>, components).heap
    /\ heapBefore = heap
    /\ arg = LoadValue(<<>>, components).value
    /\ ret = Undefined
    /\ ClientIdle
    /\ SessionIdle({Undefined})

\* validateEntityComponents(components): its parameter is a record, never
\* undefined.
ValidateEntityComponents ==
    /\ op = "none"
    /\ components # Undefined
    /\ LET run == validateEntityComponents(components)
       IN  /\ outcome' = IF run.completion.kind = "throw" THEN "threw" ELSE "returned"
           /\ result' = run.completion.value
           /\ error' = run.completion.error
           /\ examined' = run.examined
    /\ op' = "validateEntityComponents"
    /\ heap' = validateEntityComponentsOnHeap(heap, arg).heap
    /\ heapBefore' = heap
    /\ ret' = Undefined
    /\ UNCHANGED <<components, source, passes, arg, clientVars, sessionVars>>

\* componentsToRecord(components)
ComponentsToRecord ==
    /\ op = "none"
    /\ LET completion == componentsToRecord(components)
       IN  /\ outcome' = IF completion.kind = "throw" THEN "threw" ELSE "returned"
           /\ result' = completion.value
           /\ error' = completion.error
    /\ op' = "componentsToRecord"
    /\ passes' = 1
    /\ heap' = componentsToRecordOnHeap(heap, arg).heap
    /\ heapBefore' = heap
    /\ ret' = componentsToRecordOnHeap(heap, arg).value
    /\ UNCHANGED <<components, source, examined, arg, clientVars, sessionVars>>

\* componentsToRecord applied to the record a first call returned.
ComponentsToRecordAgain ==
    /\ op = "componentsToRecord"
    /\ outcome = "returned"
    /\ passes = 1
    /\ LET completion == componentsToRecord(result)
       IN  /\ outcome' = IF completion.kind = "throw" THEN "threw" ELSE "returned"
           /\ result' = completion.value
           /\ error' = completion.error
    /\ components' = result
    /\ passes' = 2
    /\ heap' = componentsToRecordOnHeap(heap, ret).heap
    /\ heapBefore' = heap
    /\ arg' = ret
    /\ ret' = componentsToRecordOnHeap(heap, ret).value
    /\ UNCHANGED <<source, op, examined, clientVars, sessionVars>>

Next ==
    \/ ValidateEntityComponents
    \/ ComponentsToRecord
    \/ ComponentsToRecordAgain

Spec == Init /\ [][Next]_vars

----------------------------------------------------------------------------
(* The state machine of one call on a client *)

InitClient == ClientIdle /\ DataIdle /\ SessionIdle({Undefined})

\* The program calls a method: the method runs until it throws, returns a
\* rejected promise, or awaits fetchImpl.
Call ==
    /\ phase = "idle"
    /\ \E c \in Calls :
          LET ran == Invoke(c)
          IN  /\ call' = c
              /\ steps' = ran.steps
              /\ IF ran.kind = "sent"
                 THEN /\ phase' = "awaiting"
                      /\ settlement' = Pending
                      /\ sent' = <<ran.request>>
                      /\ continuation' = FirstAwait(c)
                 ELSE /\ phase' = "settled"
                      /\ settlement' = IF ran.kind = "threw" THEN Threw(ran.error)
                                       ELSE Rejected(ran.error)
                      /\ sent' = <<>>
                      /\ continuation' = Finished
    /\ UNCHANGED <<received, reads, dataVars, sessionVars>>

\* fetchImpl's promise resolves with a response and the method resumes.
Respond ==
    /\ phase = "awaiting"
    /\ \E response \in ResponsesTo(sent[Len(sent)]) :
          LET resumed == Resume(call, continuation, response)
          IN  /\ received' = Append(received, response)
              /\ reads' = Append(reads, resumed.reads)
              /\ settlement' = resumed.settlement
              /\ continuation' = resumed.continuation
              /\ IF resumed.settlement.kind = "pending"
                 THEN /\ phase' = "awaiting"
                      /\ sent' = Append(sent, resumed.request)
                 ELSE /\ phase' = "settled"
                      /\ sent' = sent
    /\ UNCHANGED <<call, steps, dataVars, sessionVars>>

\* fetchImpl's promise rejects: the awaiting method rejects with its error.
TransportFails ==
    /\ phase = "awaiting"
    /\ phase' = "settled"
    /\ settlement' = Rejected(NetworkError)
    /\ continuation' = Finished
    /\ UNCHANGED <<call, sent, received, reads, steps, dataVars, sessionVars>>

NextClient ==
    \/ Call
    \/ Respond
    \/ TransportFails

SpecClient == InitClient /\ [][NextClient]_vars

----------------------------------------------------------------------------
(* The state machine of a client with several operations in flight *)

\* globalThis.fetch is missing, a function, or something that is no function.
InitSession ==
    /\ DataIdle
    /\ ClientIdle
    /\ SessionIdle({Undefined, <<"function", "fetch">>, Str("stub")})

\* new AtlasHttpClient(options): the fields are assigned here and nowhere else.
Construct ==
    /\ client.built = "no"
    /\ \E opts \in ClientOptionsArgs :
          /\ clientOptions' = opts
          /\ client' = constructor(opts, globalFetch)
    /\ UNCHANGED <<globalFetch, flights, dataVars, clientVars>>

\* The program calls a method while others may be awaiting: the method runs
\* until it throws, returns a rejected promise, or awaits this.fetchImpl.
\* The operations are numbered in the order they start.
CallIn ==
    /\ client.built = "yes"
    /\ \E i \in 1..MaxInFlight, c \in SessionCalls :
          /\ flights[i].phase = "idle"
          /\ i > 1 => flights[i - 1].phase # "idle"
          /\ LET ran == Invoke(c)
             IN  flights' = [flights EXCEPT ![i] =
                    IF ran.kind = "sent"
                    THEN [call |-> c, phase |-> "awaiting", settlement |-> Pending,
                          sent |-> <<TransportCall(client, ran.request)>>,
                          received |-> <<>>, continuation |-> FirstAwait(c)]
                    ELSE [call |-> c, phase |-> "settled",
                          settlement |-> IF ran.kind = "threw" THEN Threw(ran.error)
                                         ELSE Rejected(ran.error),
                          sent |-> <<>>, received |-> <<>>, continuation |-> Finished]]
    /\ UNCHANGED <<globalFetch, clientOptions, client, dataVars, clientVars>>

\* One promise of fetchImpl resolves and the method that awaits it resumes
\* with the continuation of the operation of another promise.
RespondIn_SharedContinuation ==
    /\ \E i \in 1..MaxInFlight :
          /\ flights[i].phase = "awaiting"
          /\ \E response \in SessionResponses(flights[i].sent[Len(flights[i].sent)]) :
                LET latest == CHOOSE j \in 1..MaxInFlight :
                                  /\ flights[j].phase = "awaiting"
                                  /\ \A k \in 1..MaxInFlight :
                                        flights[k].phase = "awaiting" => k <= j
                    resumed == Resume(flights[latest].call, flights[latest].continuation,
                                      response)
                IN  flights' = [flights EXCEPT ![i] =
                       [call |-> flights[i].call,
                        phase |-> IF resumed.settlement.kind = "pending"
                                  THEN "awaiting" ELSE "settled",
                        settlement |-> resumed.settlement,
                        sent |-> IF resumed.settlement.kind = "pending"
                                 THEN Append(flights[i].sent,
                                             TransportCall(client, resumed.request))
                                 ELSE flights[i].sent,
                        received |-> Append(flights[i].received, response),
                        continuation |-> resumed.continuation]]
    /\ UNCHANGED <<globalFetch, clientOptions, client, dataVars, clientVars>>

\* One promise of fetchImpl resolves with a response and the method that
\* awaits it resumes, with its own locals.
RespondIn ==
    /\ \E i \in 1..MaxInFlight :
          /\ flights[i].phase = "awaiting"
          /\ \E response \in SessionResponses(flights[i].sent[Len(flights[i].sent)]) :
                LET resumed == Resume(flights[i].call, flights[i].continuation, response)
                IN  flights' = [flights EXCEPT ![i] =
                       [call |-> flights[i].call,
                        phase |-> IF resumed.settlement.kind = "pending"
                                  THEN "awaiting" ELSE "settled",
                        settlement |-> resumed.settlement,
                        sent |-> IF resumed.settlement.kind = "pending"
                                 THEN Append(flights[i].sent,
                                             TransportCall(client, resumed.request))
                                 ELSE flights[i].sent,
                        received |-> Append(flights[i].received, response),
                        continuation |-> resumed.continuation]]
    /\ UNCHANGED <<globalFetch, clientOptions, client, dataVars, clientVars>>

\* One promise of fetchImpl rejects: the method that awaits it rejects.
TransportFailsIn ==
    /\ \E i \in 1..MaxInFlight :
          /\ flights[i].phase = "awaiting"
          /\ flights' = [flights EXCEPT ![i] =
                [call |-> flights[i].call, phase |-> "settled",
                 settlement |-> Rejected(NetworkError), sent |-> flights[i].sent,
                 received |-> flights[i].received, continuation |-> Finished]]
    /\ UNCHANGED <<globalFetch, clientOptions, client, dataVars, clientVars>>

NextSession ==
    \/ Construct
    \/ CallIn
    \/ RespondIn
    \/ TransportFailsIn

SpecSession == InitSession /\ [][NextSession]_vars

----------------------------------------------------------------------------
(* The validator's contract, stated apart from the code's own tests *)

StatedKnownNames ==
    {telemetry, geometry, task_catalog, media_refs, mil_view, health,
     sensor_refs, communications, task_queue, status, heartbeat}

\* The key begins with the seven characters c u s t o m _
BeginsWithCustom_(key) ==
    /\ Len(key) >= 7
    /\ SubSeq(key, 1, 7) = <<"c", "u", "s", "t", "o", "m", "_">>

Offending(key) == key \notin StatedKnownNames /\ ~BeginsWithCustom_(key)

OffendingKeys(obj) == {k \in KeySet(obj) : Offending(k)}

\* The first offending key of a sequence of keys with one.
FirstOffending(keys) ==
    keys[CHOOSE i \in 1..Len(keys) :
             /\ Offending(keys[i])
             /\ \A j \in 1..(i - 1) : ~Offending(keys[j])]

Validated == op = "validateEntityComponents"

\* C1: validateEntityComponents(m) completes without error if and only if
\* every top-level key of m is one of the eleven known names or starts with
\* custom_ (the empty mapping included); otherwise it throws the
\* unknown-component error.
C1_ValidAcceptedInvalidRejected ==
    Validated =>
        /\ outcome = "returned" <=> OffendingKeys(components) = {}
        /\ outcome = "threw" <=> OffendingKeys(components) # {}
        /\ outcome = "returned" => error = NoError
        /\ outcome = "threw" =>
               \E k \in OffendingKeys(components) : error = UnknownComponentError(k)

C1_Witness ==
    /\ Validated
    /\ outcome = "threw"
    /\ KeySet(components) \cap StatedKnownNames # {}
    /\ Cardinality(OffendingKeys(components)) = 1

\* C2 as stated: the error of a rejected mapping names the first offending
\* key in the order the keys were inserted.
C2_NamesFirstInserted ==
    (Validated /\ outcome = "threw") =>
        error = UnknownComponentError(FirstOffending(InsertedKeys(components)))

\* C2 amended: the error of a rejected mapping names the first offending
\* key in the order Object.keys enumerates the mapping (array-index keys in
\* ascending numeric order, then the other keys in insertion order); the
\* keys examined are the enumerated keys up to that one and no later key;
\* for a mapping without array-index keys it is the first offending key in
\* insertion order.
C2_NamesFirstEnumerated ==
    (Validated /\ outcome = "threw") =>
        LET keys == OwnKeys(components)
            first == FirstOffending(keys)
        IN  /\ error = UnknownComponentError(first)
            /\ examined # <<>>
            /\ examined[Len(examined)] = first
            /\ examined = SubSeq(keys, 1, Len(examined))
            /\ \A i \in 1..(Len(examined) - 1) : ~Offending(examined[i])
            /\ (\A k \in KeySet(components) : ~IsArrayIndex(k)) =>
                   error = UnknownComponentError(FirstOffending(InsertedKeys(components)))

C2_Witness ==
    /\ Validated
    /\ outcome = "threw"
    /\ Cardinality(OffendingKeys(components)) >= 2
    /\ Len(examined) < Len(InsertedKeys(components))

\* Known sets other than the code's, for the case that does not consult it
OtherKnownSets == {{}, {unknown_key}, KNOWN_ENTITY_COMPONENTS, {custom, Custom_x}}

\* C3: a key outside the known set is accepted exactly when it begins with
\* the case-sensitive string custom_; the key custom_ itself is accepted; a
\* mapping of only such keys is accepted whatever the known set holds; the
\* keys custom, Custom_x and x_custom_ are rejected.
C3_CustomPrefixExactly ==
    Validated =>
        /\ outcome = "returned" =>
               \A k \in KeySet(components) \ StatedKnownNames : BeginsWithCustom_(k)
        /\ outcome = "threw" => ~BeginsWithCustom_(error[2])
        /\ (\A k \in KeySet(components) : BeginsWithCustom_(k)) =>
               /\ outcome = "returned"
               /\ \A known \in OtherKnownSets :
                      ValidateAgainst(known, components).completion.kind = "return"
        /\ KeySet(components) \cap {custom, Custom_x, x_custom_} # {} =>
               outcome = "threw"

C3_Witness ==
    /\ Validated
    /\ outcome = "returned"
    /\ KeySet(components) = {custom_, custom_weather}

\* Values put in place of a mapping's own: scalars, null, and records and
\* sequences that hold keys the validator would reject at top level.
VariantValues ==
    {Null,
     Str("x"),
     Obj(<< <<unknown_key, Obj(<< <<custom, Null>> >>)>>, <<key_7, Num(0)>> >>),
     Arr(<< Obj(<< <<Custom_x, Undefined>> >>) >>)}

\* The mappings of the given keys, inserted in that order, with variant
\* values.
Variants(keys) ==
    {FromEntries(keys, values) : values \in [1..Len(keys) -> VariantValues]}

\* C4 as stated: the outcome depends only on the set of top-level keys: a
\* mapping with the same key set is accepted too, or rejected with the same
\* offending key.
C4_OutcomeBySetOfKeys ==
    Validated =>
        \A other \in Mappings :
            KeySet(other) = KeySet(components) =>
                validateEntityComponents(other).completion.error = error

\* C4 amended: acceptance depends only on the set of top-level keys, and the
\* offending key named depends only on the top-level keys and their order:
\* two mappings with the same top-level keys in the same order and arbitrary
\* different values (nested records with unknown keys included) are both
\* accepted or both rejected with the same offending key.
C4_OutcomeByKeysNotValues ==
    Validated =>
        /\ \A other \in Variants(InsertedKeys(components)) :
               LET run == validateEntityComponents(other)
               IN  /\ run.completion.error = error
                   /\ (run.completion.kind = "throw") <=> (outcome = "threw")
                   /\ run.examined = examined
        /\ \A keys \in KeySeqs(KeySet(components), Len(InsertedKeys(components))) :
               \A other \in Variants(keys) :
                   (validateEntityComponents(other).completion.kind = "throw")
                       <=> (outcome = "threw")

C4_Witness ==
    /\ Validated
    /\ outcome = "returned"
    /\ KeySet(components) = {telemetry, custom_weather}
    /\ \E other \in Variants(InsertedKeys(components)) :
           \E k \in KeySet(other) :
               /\ IsObject(Get(other, k))
               /\ OffendingKeys(Get(other, k)) # {}

----------------------------------------------------------------------------
(* The normalizer's contract *)

Normalized == op = "componentsToRecord" /\ outcome = "returned"

Min(a, b) == IF a <= b THEN a ELSE b

\* The pairs <<input value, output value>> at the same position of an input
\* and an output: the two themselves, and the pairs under the same key of
\* two records or the same index of two sequences.
RECURSIVE Corresponding(_, _)
Corresponding(in, out) ==
    {<<in, out>>}
        \cup (IF IsArray(in) /\ IsArray(out)
              THEN UNION {Corresponding(Items(in)[i], Items(out)[i]) :
                             i \in 1..Min(Len(Items(in)), Len(Items(out)))}
              ELSE IF IsObject(in) /\ IsObject(out)
                   THEN UNION {Corresponding(Get(in, k), Get(out, k)) :
                                  k \in KeySet(in) \cap KeySet(out)}
                   ELSE {})

\* The four cases of normalization, as a relation between a value and its
\* normal form.
RECURSIVE NormalizedTo(_, _)
NormalizedTo(in, out) ==
    IF IsNullish(in) THEN out = Undefined
    ELSE IF IsArray(in)
         THEN /\ IsArray(out)
              /\ Len(Items(out)) = Len(Items(in))
              /\ \A i \in 1..Len(Items(in)) :
                     IF IsNullish(Items(in)[i])
                     THEN Items(out)[i] = Items(in)[i]
                     ELSE NormalizedTo(Items(in)[i], Items(out)[i])
         ELSE IF IsObject(in)
              THEN /\ IsObject(out)
                   /\ KeySet(out) = {k \in KeySet(in) : ~IsNullish(Get(in, k))}
                   /\ \A k \in KeySet(out) : NormalizedTo(Get(in, k), Get(out, k))
              ELSE out = in

\* C5: for every record at any depth of the input of componentsToRecord, the
\* corresponding output record has a field k if and only if the input field
\* k is neither null nor undefined, and its value is the normalization of
\* the input value.
C5_RecordFieldsKeptIffNotNullish ==
    (Normalized /\ components # Undefined) =>
        \A pair \in Corresponding(components, result) :
            IsObject(pair[1]) =>
                /\ IsObject(pair[2])
                /\ \A k \in KeySet(pair[1]) :
                       k \in KeySet(pair[2]) <=> ~IsNullish(Get(pair[1], k))
                /\ KeySet(pair[2]) \subseteq KeySet(pair[1])
                /\ Len(InsertedEntries(pair[2])) = Cardinality(KeySet(pair[2]))
                /\ \A k \in KeySet(pair[2]) :
                       NormalizedTo(Get(pair[1], k), Get(pair[2], k))

C5_Witness ==
    /\ Normalized
    /\ components # Undefined
    /\ \E pair \in Corresponding(components, result) \ {<<components, result>>} :
           /\ IsObject(pair[1])
           /\ \E k \in KeySet(pair[1]) : Get(pair[1], k) = Null
           /\ \E k \in KeySet(pair[1]) : ~IsNullish(Get(pair[1], k))
           /\ Cardinality(KeySet(pair[2])) = 1

\* C6: for every sequence at any depth of the input of componentsToRecord,
\* the output sequence has the same length, a null or undefined element
\* stays as it is at its index, and every other element at index i is the
\* normalization of the input element at index i.
C6_SequencesKeepLengthAndNulls ==
    (Normalized /\ components # Undefined) =>
        \A pair \in Corresponding(components, result) :
            IsArray(pair[1]) =>
                /\ IsArray(pair[2])
                /\ Len(Items(pair[2])) = Len(Items(pair[1]))
                /\ \A i \in 1..Len(Items(pair[1])) :
                       IF IsNullish(Items(pair[1])[i])
                       THEN Items(pair[2])[i] = Items(pair[1])[i]
                       ELSE NormalizedTo(Items(pair[1])[i], Items(pair[2])[i])

C6_Witness ==
    /\ Normalized
    /\ \E pair \in Corresponding(components, result) :
           /\ IsArray(pair[1])
           /\ Len(Items(pair[1])) = 2
           /\ Items(pair[1])[1] = Null
           /\ ~IsNullish(Items(pair[1])[2])
           /\ Items(pair[2])[1] = Null

\* C7: componentsToRecord returns undefined if and only if its input is
\* undefined; for every mapping the result is a record, the empty record
\* when every top-level field is dropped.
C7_AbsentIffInputAbsent ==
    op = "componentsToRecord" =>
        /\ outcome = "returned"
        /\ result = Undefined <=> components = Undefined
        /\ components # Undefined => IsObject(result)
        /\ (/\ components # Undefined
            /\ \A k \in KeySet(components) : IsNullish(Get(components, k)))
               => result = Obj(<<>>)

C7_Witness ==
    /\ Normalized
    /\ components # Undefined
    /\ Cardinality(KeySet(components)) = 2
    /\ \A k \in KeySet(components) : IsNullish(Get(components, k))
    /\ result = Obj(<<>>)

\* C8: a field whose raw value is a record is never omitted because that
\* record became empty: a record whose fields are all null or undefined is
\* kept as the empty record.
C8_EmptiedRecordKept ==
    (Normalized /\ components # Undefined) =>
        \A pair \in Corresponding(components, result) :
            IsObject(pair[1]) =>
                \A k \in KeySet(pair[1]) :
                    IsObject(Get(pair[1], k)) =>
                        /\ IsObject(pair[2])
                        /\ k \in KeySet(pair[2])
                        /\ IsObject(Get(pair[2], k))
                        /\ (\A f \in KeySet(Get(pair[1], k)) :
                                IsNullish(Get(Get(pair[1], k), f)))
                               => Get(pair[2], k) = Obj(<<>>)

C8_Witness ==
    /\ Normalized
    /\ components = Obj(<< <<telemetry, Obj(<< <<latitude, Undefined>> >>)>> >>)
    /\ result = Obj(<< <<telemetry, Obj(<<>>)>> >>)

\* No null or undefined anywhere in a value, at any depth.
RECURSIVE NoNullishAnywhere(_)
NoNullishAnywhere(value) ==
    /\ ~IsNullish(value)
    /\ IsArray(value) =>
           \A i \in 1..Len(Items(value)) : NoNullishAnywhere(Items(value)[i])
    /\ IsObject(value) =>
           \A k \in KeySet(value) : NoNullishAnywhere(Get(value, k))

\* A value with the properties of every record listed in the order they
\* are enumerated in: two values that Object.entries and JSON.stringify
\* cannot tell apart have the same listing.
RECURSIVE Enumerated(_)
Enumerated(value) ==
    IF IsArray(value)
    THEN Arr([i \in 1..Len(Items(value)) |-> Enumerated(Items(value)[i])])
    ELSE IF IsObject(value)
         THEN Obj([i \in 1..Len(Entries(value)) |->
                      <<Entries(value)[i][1], Enumerated(Entries(value)[i][2])>>])
         ELSE value

\* C9: for a record input x (and every record and sequence in it) with no
\* null or undefined anywhere, normalize(x) equals x and
\* normalize(normalize(x)) equals normalize(x).
C9_FixedPointWithoutNulls ==
    (op = "componentsToRecord" /\ NoNullishAnywhere(source)) =>
        /\ outcome = "returned"
        /\ result = Enumerated(source)
        /\ Enumerated(components) = Enumerated(source)
        /\ \A pair \in Corresponding(source, result) :
               pair[2] = Enumerated(pair[1])

C9_Witness ==
    /\ Normalized
    /\ passes = 2
    /\ NoNullishAnywhere(source)
    /\ \E k \in KeySet(source) :
           /\ IsArray(Get(source, k))
           /\ Num(0) \in Range(Items(Get(source, k)))

\* C10: componentsToRecord never throws, and it validates no key: a mapping
\* with a top-level key the validator rejects is normalized and returned
\* like any other, that key's field included.
C10_NeverThrowsNeverValidates ==
    op = "componentsToRecord" =>
        /\ outcome = "returned"
        /\ error = NoError
        /\ components # Undefined =>
               /\ NormalizedTo(components, result)
               /\ \A k \in OffendingKeys(components) :
                      ~IsNullish(Get(components, k)) => k \in KeySet(result)

C10_Witness ==
    /\ Normalized
    /\ passes = 1
    /\ components # Undefined
    /\ validateEntityComponents(components).completion.kind = "throw"
    /\ OffendingKeys(components) # {}
    /\ OffendingKeys(components) \subseteq KeySet(result)

----------------------------------------------------------------------------
(* Frame of the two functions *)

\* The addresses of the arrays and objects a value is made of.
RECURSIVE Reachable(_, _)
Reachable(h, value) ==
    IF ~IsRef(value) THEN {}
    ELSE {value[2]}
             \cup (IF IsArray(Deref(h, value))
                   THEN UNION {Reachable(h, Items(Deref(h, value))[i]) :
                                  i \in 1..Len(Items(Deref(h, value)))}
                   ELSE UNION {Reachable(h, InsertedEntries(Deref(h, value))[i][2]) :
                                  i \in 1..Len(InsertedEntries(Deref(h, value)))})

\* C11: neither validateEntityComponents nor componentsToRecord changes its
\* argument: after the call, successful or failing, every array and object
\* that existed before it is as it was, the validator has built nothing, and
\* no array or object of the result of componentsToRecord is one of the
\* input (or existed before the call).
C11_ArgumentUnchangedResultFresh ==
    op # "none" =>
        /\ Len(heap) >= Len(heapBefore)
        /\ \A address \in 1..Len(heapBefore) : heap[address] = heapBefore[address]
        /\ Unload(heap, arg) = components
        /\ op = "validateEntityComponents" => heap = heapBefore
        /\ op = "componentsToRecord" =>
               /\ Reachable(heap, ret) \cap Reachable(heapBefore, arg) = {}
               /\ Reachable(heap, ret) \cap (1..Len(heapBefore)) = {}
               /\ Unload(heap, ret) = result

C11_Witness ==
    /\ op = "componentsToRecord"
    /\ outcome = "returned"
    /\ Cardinality(Reachable(heapBefore, arg)) >= 3
    /\ Cardinality(Reachable(heap, ret)) >= 3
    /\ \E address \in Reachable(heap, ret) : IsArray(heap[address])

----------------------------------------------------------------------------
(* The client's use of the validator and the normalizer *)

ComponentMethods == {"createEntity", "updateEntity", "createTask", "updateTask"}
EntityMethods == {"createEntity", "updateEntity"}
TaskMethods == {"createTask", "updateTask"}

\* The call passes a component mapping.
PassesComponents == call.method \in ComponentMethods /\ call.comps # Undefined

\* The call passes a component mapping with a key that is neither known
\* nor custom_-prefixed.
PassesOffendingKey == PassesComponents /\ OffendingKeys(call.comps) # {}

\* The call failed before any request: it threw, or its promise rejected.
FailedUnsent ==
    /\ phase = "settled"
    /\ settlement.kind \in {"threw", "rejected"}
    /\ sent = <<>>
    /\ received = <<>>

\* The JSON document of a request's body.
Document(req) == req.body[2]

\* C12 as stated: for createEntity, updateEntity, createTask and updateTask
\* alike, the validator is the first helper run on a component mapping, and
\* a mapping with a key that is neither known nor custom_-prefixed makes the
\* call fail with no request sent.
C12_ValidatorBeforeEveryComponentRequest ==
    PassesComponents =>
        /\ steps # <<>>
        /\ steps[1] = "validateEntityComponents"
        /\ PassesOffendingKey => FailedUnsent

\* C12: createEntity and updateEntity run the validator on the component
\* mapping before anything else, and a mapping with an offending key makes
\* them fail with no request sent; createTask and updateTask never run the
\* validator: they normalize the mapping and send it whatever its keys.
C12_ValidatorBeforeEntityRequestsOnly ==
    PassesComponents =>
        /\ call.method \in EntityMethods =>
              /\ steps[1] = "validateEntityComponents"
              /\ PassesOffendingKey =>
                    /\ FailedUnsent
                    /\ steps = <<"validateEntityComponents">>
              /\ ~PassesOffendingKey =>
                    /\ steps = <<"validateEntityComponents", "componentsToRecord", "request">>
                    /\ Len(sent) = 1
        /\ call.method \in TaskMethods =>
              /\ steps = <<"componentsToRecord", "request">>
              /\ Len(sent) = 1
              /\ Key.components \in KeySet(Document(sent[1]))

C12_Witness ==
    /\ call.method = "createEntity"
    /\ PassesOffendingKey
    /\ FailedUnsent
    /\ steps = <<"validateEntityComponents">>

\* C13: createEntity and updateEntity called with a component mapping that
\* has an unknown key without the custom_ prefix throw the unknown-component
\* error for the first such key synchronously (the call does not return a
\* promise), and fetchImpl is never called.
C13_UnknownKeyThrowsSynchronously ==
    call.method \in EntityMethods /\ PassesOffendingKey =>
        /\ phase = "settled"
        /\ settlement.kind = "threw"
        /\ settlement.error =
              <<"Unknown component '", FirstOffending(OwnKeys(call.comps)),
                "' in entity components. Custom components must be prefixed with 'custom_'">>
        /\ sent = <<>>
        /\ received = <<>>

C13_Witness ==
    /\ call.method = "updateEntity"
    /\ PassesOffendingKey
    /\ Len(OwnKeys(call.comps)) >= 2
    /\ settlement.kind = "threw"
    /\ sent = <<>>

\* C14 as stated: in the body sent by createEntity, updateEntity,
\* createTask and updateTask the field components is present if and only if
\* a components argument was given, and its value is then the normalization
\* of the argument: nullish record fields removed, sequences kept as they are.
C14_ComponentsFieldIsNormalizedArgument ==
    call.method \in ComponentMethods /\ sent # <<>> =>
        /\ Key.components \in KeySet(Document(sent[1])) <=> call.comps # Undefined
        /\ call.comps # Undefined =>
               NormalizedTo(call.comps, Get(Document(sent[1]), Key.components))

\* The value with null in the place of every undefined element of a sequence.
RECURSIVE UndefinedItemsAsNull(_)
UndefinedItemsAsNull(value) ==
    IF IsArray(value)
    THEN Arr([i \in 1..Len(Items(value)) |->
                 IF Items(value)[i] = Undefined THEN Null
                 ELSE UndefinedItemsAsNull(Items(value)[i])])
    ELSE IF IsObject(value)
         THEN Obj([i \in 1..Len(InsertedEntries(value)) |->
                      <<InsertedEntries(value)[i][1],
                        UndefinedItemsAsNull(InsertedEntries(value)[i][2])>>])
         ELSE value

\* C14: in the body sent by createEntity, updateEntity, createTask and
\* updateTask the field components is present if and only if a components
\* argument was given, and its value is then componentsToRecord of the
\* argument as JSON text carries it: an undefined element of a sequence is
\* sent as null, everything else as componentsToRecord returned it.
C14_ComponentsFieldIsNormalizedArgumentAsJson ==
    call.method \in ComponentMethods /\ sent # <<>> =>
        /\ Key.components \in KeySet(Document(sent[1])) <=> call.comps # Undefined
        /\ call.comps # Undefined =>
               \E normalized \in {componentsToRecord(call.comps).value} :
                  /\ NormalizedTo(call.comps, normalized)
                  /\ Get(Document(sent[1]), Key.components) = UndefinedItemsAsNull(normalized)

C14_Witness ==
    /\ call.method = "updateTask"
    /\ sent # <<>>
    /\ call.comps # Undefined
    /\ Get(Document(sent[1]), Key.components) # call.comps
    /\ Get(Document(sent[1]), Key.components) # componentsToRecord(call.comps).value

----------------------------------------------------------------------------
(* Requests and responses of a call *)

\* Whether the call's arguments pass the method's own checks.
ArgumentChecksPass(c) ==
    /\ c.method \in EntityMethods /\ c.comps # Undefined => OffendingKeys(c.comps) = {}
    /\ c.method = "updateEntity" =>
           c.comps # Undefined \/ Prop(c.options, Key.subtype) # Undefined
    /\ c.method = "updateTask" => c.comps # Undefined \/ c.options # Undefined
    /\ c.method = "updateObject" => c.hints # Undefined \/ c.referencedBy # Undefined
    /\ c.method = "createObject" => c.file.type # Str("")

\* The response is not a 2xx response.
NotSuccessful(response) == response.status < 200 \/ response.status > 299

\* C15 as stated: every call whose argument checks pass makes exactly one
\* call of fetchImpl, and no call makes a second one.
C15_ExactlyOneTransportCall ==
    /\ Len(sent) <= 1
    /\ phase # "idle" /\ ArgumentChecksPass(call) => Len(sent) = 1

\* How many references createObject is to attach.
ReferenceCount(c) ==
    IF c.referencedBy = Undefined THEN 0 ELSE Len(Items(c.referencedBy))

\* C15: a call makes a call of fetchImpl if and only if its argument checks
\* pass.  Every method but createObject makes exactly one.  createObject
\* makes one upload and then one addObjectReference request per entry of
\* referencedBy, in order, each after the response to the one before; it
\* resolves only after all of them.  A response that is not 2xx, or a
\* failure of the transport, ends the call: no request follows it, so no
\* request is retried.
C15_OneRequestPerStepNoRetry ==
    /\ phase # "idle" => (ArgumentChecksPass(call) <=> Len(sent) >= 1)
    /\ call.method # "createObject" => Len(sent) <= 1
    /\ Len(received) <= Len(sent)
    /\ Len(sent) <= Len(received) + 1
    /\ phase = "awaiting" => Len(sent) = Len(received) + 1
    /\ \A i \in 1..Len(received) :
          NotSuccessful(received[i]) =>
              /\ phase = "settled"
              /\ settlement.kind = "rejected"
              /\ Len(sent) = i
    /\ call.method = "createObject" /\ sent # <<>> =>
          /\ sent[1].kind = "multipart"
          /\ sent[1].path = <<"/objects/upload">>
          /\ Len(sent) <= 1 + ReferenceCount(call)
          /\ settlement.kind = "resolved" => Len(sent) = 1 + ReferenceCount(call)
          /\ \A i \in 2..Len(sent) :
                LET reference == Items(call.referencedBy)[i - 1]
                IN  /\ sent[i].method = "POST"
                    /\ sent[i].path =
                          <<"/objects/",
                            Get(Document([body |-> received[1].body]), Key.object_id)[2],
                            "/references">>
                    /\ Document(sent[i]) = reference

C15_Witness ==
    /\ call.method = "createObject"
    /\ Len(sent) = 3
    /\ settlement.kind = "resolved"
    /\ Items(call.referencedBy)[1] # Items(call.referencedBy)[2]

\* C16: whenever fetchImpl resolves with a response that is not 2xx, the
\* call ends there, rejected with the Error `HTTP <status>: <body text>`;
\* the only read of that response's body is the read of its text, and the
\* call returns no value.
C16_NotOkRejectsWithStatusAndText ==
    \A i \in 1..Len(received) :
        NotSuccessful(received[i]) =>
            /\ i = Len(received)
            /\ phase = "settled"
            /\ settlement.kind = "rejected"
            /\ settlement.error = <<"HTTP ", received[i].status, ": ", received[i].body>>
            /\ settlement.value = Undefined
            /\ reads[i] = <<"text">>

C16_Witness ==
    /\ received # <<>>
    /\ received[Len(received)].status = 404
    /\ received[Len(received)].body = JsonText(Obj(<<<<Key.object_id, Str("obj-123")>>>>))
    /\ settlement.kind = "rejected"
    /\ call.method = "deleteEntity"

\* C17 as stated: for a 204 response no method reads the response body,
\* and the method the response ends returns undefined.
C17_NoContentReturnsUndefined ==
    \A i \in 1..Len(received) :
        received[i].status = 204 =>
            /\ reads[i] = <<>>
            /\ phase = "settled" /\ i = Len(received) =>
                   /\ settlement.kind = "resolved"
                   /\ settlement.value = Undefined

----------------------------------------------------------------------------
(* The argument checks of the update methods *)

\* The keys among wanted that the document holds.
Held(document, wanted) == KeySet(document) \cap wanted

\* The call threw the Error with this message before it returned.
ThrewUnsent(message) ==
    /\ phase = "settled"
    /\ settlement.kind = "threw"
    /\ settlement.error = <<message>>
    /\ sent = <<>>

\* The call sent one request, a PATCH of this path.
SentOnePatch(path) ==
    /\ Len(sent) = 1
    /\ sent[1].method = "PATCH"
    /\ sent[1].path = path

\* C18 as stated: updateEntity throws synchronously and sends nothing when
\* components and options.subtype are both undefined; when at least one is
\* given it sends exactly one PATCH to /entities/{id} whose body holds only
\* the fields that were given.
C18_UpdateEntityOnePatchWhenGiven ==
    call.method = "updateEntity" =>
        IF call.comps = Undefined /\ Prop(call.options, Key.subtype) = Undefined
        THEN ThrewUnsent("AtlasHttpClient.updateEntity requires a components payload or subtype.")
        ELSE /\ SentOnePatch(<<"/entities/", "entity-1">>)
             /\ KeySet(Document(sent[1])) =
                   {k \in {Key.components} : call.comps # Undefined}
                   \cup {k \in {Key.subtype} : Prop(call.options, Key.subtype) # Undefined}

\* C18: updateEntity throws synchronously and sends nothing when components
\* and options.subtype are both undefined, and also when the components have
\* a key that is neither known nor custom_-prefixed; in every other case it
\* sends exactly one PATCH to /entities/{id} whose body holds components if
\* and only if they were given and subtype, with the value given, if and
\* only if it was given.
C18_UpdateEntityOnePatchWhenGivenAndValid ==
    call.method = "updateEntity" =>
        IF call.comps = Undefined /\ Prop(call.options, Key.subtype) = Undefined
        THEN ThrewUnsent("AtlasHttpClient.updateEntity requires a components payload or subtype.")
        ELSE IF PassesOffendingKey
             THEN /\ phase = "settled"
                  /\ settlement.kind = "threw"
                  /\ settlement.error[1] = "Unknown component '"
                  /\ sent = <<>>
             ELSE /\ SentOnePatch(<<"/entities/", "entity-1">>)
                  /\ KeySet(Document(sent[1])) =
                        {k \in {Key.components} : call.comps # Undefined}
                        \cup {k \in {Key.subtype} : Prop(call.options, Key.subtype) # Undefined}
                  /\ Prop(call.options, Key.subtype) # Undefined =>
                        Get(Document(sent[1]), Key.subtype) = Get(call.options, Key.subtype)

C18_Witness ==
    /\ call.method = "updateEntity"
    /\ call.comps = Undefined
    /\ call.options # Undefined
    /\ Len(sent) = 1
    /\ KeySet(Document(sent[1])) = {Key.subtype}

TaskFields == {Key.components, Key.status, Key.entity_id, Key.extra}

\* C19 as stated: updateTask throws synchronously and sends nothing when
\* neither components nor options is provided, and every PATCH it sends
\* carries at least one of components, status, entity_id or extra.
C19_UpdateTaskPatchCarriesAField ==
    call.method = "updateTask" =>
        /\ call.comps = Undefined /\ call.options = Undefined =>
              ThrewUnsent("AtlasHttpClient.updateTask requires a components payload or options.")
        /\ \A i \in 1..Len(sent) : Held(Document(sent[i]), TaskFields) # {}

\* The task fields a call of updateTask gives a value other than undefined.
GivenTaskFields(c) ==
    {k \in {Key.components} : c.comps # Undefined}
    \cup {k \in {Key.status, Key.entity_id, Key.extra} : Prop(c.options, k) # Undefined}

\* C19: updateTask throws synchronously and sends nothing when components
\* and options are both undefined; otherwise it sends exactly one PATCH to
\* /tasks/{id} whose body holds exactly those of components, status,
\* entity_id and extra that were given a value, which are none of them when
\* options is given without any and components is undefined.
C19_UpdateTaskPatchCarriesGivenFields ==
    call.method = "updateTask" =>
        IF call.comps = Undefined /\ call.options = Undefined
        THEN ThrewUnsent("AtlasHttpClient.updateTask requires a components payload or options.")
        ELSE /\ SentOnePatch(<<"/tasks/", "task-1">>)
             /\ KeySet(Document(sent[1])) = GivenTaskFields(call)
             /\ \A k \in GivenTaskFields(call) \ {Key.components} :
                   Get(Document(sent[1]), k) = Get(call.options, k)

C19_Witness ==
    /\ call.method = "updateTask"
    /\ call.comps = Undefined
    /\ call.options = Obj(<<>>)
    /\ Len(sent) = 1
    /\ Document(sent[1]) = Obj(<<>>)

\* C20: updateObject called with usageHints and referencedBy both undefined
\* does not throw: it returns a promise rejected with its Error, and sends
\* nothing; otherwise it sends one PATCH to /objects/{id} whose body holds
\* usage_hints if and only if usageHints was given and referenced_by if and
\* only if referencedBy was given, each with the value given.
C20_UpdateObjectRejectsOrPatchesGiven ==
    call.method = "updateObject" =>
        IF call.hints = Undefined /\ call.referencedBy = Undefined
        THEN /\ phase = "settled"
             /\ settlement.kind = "rejected"
             /\ settlement.error =
                   <<"AtlasHttpClient.updateObject requires usageHints or referencedBy to make an update.">>
             /\ sent = <<>>
        ELSE /\ SentOnePatch(<<"/objects/", "obj-1">>)
             /\ KeySet(Document(sent[1])) =
                   {k \in {Key.usage_hints} : call.hints # Undefined}
                   \cup {k \in {Key.referenced_by} : call.referencedBy # Undefined}
             /\ call.hints # Undefined =>
                   Get(Document(sent[1]), Key.usage_hints) = call.hints
             /\ call.referencedBy # Undefined =>
                   Get(Document(sent[1]), Key.referenced_by) = call.referencedBy

C20_Witness ==
    /\ call.method = "updateObject"
    /\ call.hints = Undefined
    /\ call.referencedBy = Undefined
    /\ settlement.kind = "rejected"
    /\ sent = <<>>

----------------------------------------------------------------------------
(* Where null and undefined remain in a normalized mapping *)

\* No record of a value, at any depth and inside sequences too, has a field
\* that is null or undefined.
RECURSIVE NoNullishField(_)
NoNullishField(value) ==
    /\ IsObject(value) =>
           \A k \in KeySet(value) :
               /\ ~IsNullish(Get(value, k))
               /\ NoNullishField(Get(value, k))
    /\ IsArray(value) =>
           \A i \in 1..Len(Items(value)) : NoNullishField(Items(value)[i])

\* C25: in the result of componentsToRecord no record at any depth, the
\* records inside sequences included, has a field that is null or
\* undefined; null and undefined occur in the result only as elements of
\* sequences.
C25_NullishOnlyAsSequenceElements ==
    (Normalized /\ result # Undefined) =>
        /\ IsObject(result)
        /\ NoNullishField(result)

C25_Witness ==
    /\ Normalized
    /\ IsObject(components)
    /\ \E k \in KeySet(components) :
           LET given == Get(components, k)
           IN  /\ IsArray(given)
               /\ \E i \in 1..Len(Items(given)) :
                      /\ IsObject(Items(given)[i])
                      /\ \E f \in KeySet(Items(given)[i]) :
                             IsNullish(Get(Items(given)[i], f))
                      /\ Items(Get(result, k))[i] = Obj(<<>>)

----------------------------------------------------------------------------
(* The status of a created task *)

\* The status a call of createTask gives in its options.
GivenStatus(c) == Prop(c.options, Key.status)

\* C21 as stated: the body of createTask's request always has a status
\* field, which is options.status when one is given and "pending" when
\* options or options.status is not given.
C21_StatusGivenOrPending ==
    call.method = "createTask" =>
        \A i \in 1..Len(sent) :
            /\ Key.status \in KeySet(Document(sent[i]))
            /\ Get(Document(sent[i]), Key.status) =
                  IF GivenStatus(call) = Undefined THEN Str("pending") ELSE GivenStatus(call)

\* C21: the body of createTask's request always has a status field; it is
\* options.status when that is a string that is not empty, and "pending"
\* when options is not given, options.status is not given, or
\* options.status is the empty string.
C21_StatusNonEmptyOrPending ==
    call.method = "createTask" =>
        /\ Len(sent) = 1
        /\ Key.status \in KeySet(Document(sent[1]))
        /\ Get(Document(sent[1]), Key.status) =
              IF GivenStatus(call) \in {Undefined, Str("")}
              THEN Str("pending")
              ELSE GivenStatus(call)

C21_Witness ==
    /\ call.method = "createTask"
    /\ GivenStatus(call) = Str("")
    /\ Len(sent) = 1
    /\ Get(Document(sent[1]), Key.status) = Str("pending")

----------------------------------------------------------------------------
(* Query parameters *)

\* The entries of the params a request was made with.
Passed(req) == IF req.params = Undefined THEN <<>> ELSE Entries(req.params)

\* The names in a request's query string.
QueryNames(req) == {req.query[q][1] : q \in 1..Len(req.query)}

\* The text a query string holds under a name.
QueryText(req, name) ==
    LET q == CHOOSE q \in 1..Len(req.query) : req.query[q][1] = name
    IN  req.query[q][2]

\* The text of a string or a number.
AsText(value) == IF value[1] = "number" THEN ToString(value[2]) ELSE value[2]

\* An option of the call, or the fallback when it is null or undefined.
OptionOr(name, fallback) ==
    IF Prop(call.options, name) \in {Null, Undefined}
    THEN fallback
    ELSE Prop(call.options, name)

\* C24: a parameter is in the query string of a request if and only if its
\* value is neither null nor undefined, and then as the text of its value;
\* checkinEntity always sends status_filter and limit, with the defaults
\* "pending,acknowledged" and 10 when the caller gave none, and sends since
\* and fields only when the caller gave them.
C24_QueryHoldsTheGivenParams ==
    \A i \in 1..Len(sent) :
        LET req == sent[i]
            passed == Passed(req)
        IN  /\ QueryNames(req) =
                  {passed[j][1] : j \in {j \in 1..Len(passed) :
                                            passed[j][2] \notin {Null, Undefined}}}
            /\ \A j \in 1..Len(passed) :
                  passed[j][2] \notin {Null, Undefined} =>
                      QueryText(req, passed[j][1]) = AsText(passed[j][2])
            /\ call.method = "checkinEntity" =>
                  /\ {Key.status_filter, Key.limit} \subseteq QueryNames(req)
                  /\ QueryText(req, Key.status_filter) =
                        AsText(OptionOr(Key.status_filter, Str("pending,acknowledged")))
                  /\ QueryText(req, Key.limit) = AsText(OptionOr(Key.limit, Num(10)))
                  /\ \A name \in {Key.since, Key.fields} :
                        name \in QueryNames(req) <=>
                            Prop(call.options, name) \notin {Null, Undefined}

C24_Witness ==
    /\ call.method = "checkinEntity"
    /\ call.options = Obj(<<<<Key.since, Null>>, <<Key.fields, Str("minimal")>>>>)
    /\ Len(sent) = 1
    /\ sent[1].query = << <<Key.status_filter, "pending,acknowledged">>,
                          <<Key.limit, "10">>,
                          <<Key.fields, "minimal">> >>

----------------------------------------------------------------------------
(* The transport and the credentials of a client *)

\* The calls of the transport made so far, of every operation.
TransportCalls ==
    UNION {Range(flights[i].sent) : i \in 1..MaxInFlight}

\* No fetchImpl option was given to the constructor.
NoFetchImplGiven == clientOptions.fetchImpl \in {Undefined, Null}

\* C22: the constructor fails with "fetch is not available" exactly when no
\* fetchImpl option is given and globalThis.fetch is not a function; when
\* fetchImpl is given, every request of the client goes through fetchImpl,
\* never through the global fetch.
C22_FetchUnavailableOrResolved ==
    client.built # "no" =>
        /\ client.built = "threw" <=> (NoFetchImplGiven /\ TypeTag(globalFetch) # "function")
        /\ client.built = "threw" =>
              /\ client.error = <<"fetch is not available; provide fetchImpl">>
              /\ TransportCalls = {}
        /\ ~NoFetchImplGiven =>
              \A t \in TransportCalls : t.via = clientOptions.fetchImpl
        /\ (NoFetchImplGiven /\ client.built = "yes") =>
              \A t \in TransportCalls : t.via = <<"function", "globalThis.fetch">>

C22_Witness ==
    /\ client.built = "threw"
    /\ clientOptions.fetchImpl = Undefined
    /\ globalFetch = Undefined
    /\ client.error = <<"fetch is not available; provide fetchImpl">>

\* The Authorization headers of a call of the transport.
Authorization(t) ==
    {t.headers[h][2] : h \in {h \in 1..Len(t.headers) : t.headers[h][1] = "Authorization"}}

\* The pieces of text in a value.
RECURSIVE Texts(_)
Texts(value) ==
    IF IsArray(value)
    THEN UNION {Texts(Items(value)[i]) : i \in 1..Len(Items(value))}
    ELSE IF IsObject(value)
         THEN UNION {Texts(Get(value, k)) : k \in KeySet(value)}
         ELSE IF TypeTag(value) = "string" THEN {value[2]} ELSE {}

\* The pieces of text in the URL and in the body of a call of the transport.
UrlAndBodyTexts(t) ==
    Range(t.url.base) \cup Range(t.url.path)
    \cup {t.url.query[q][2] : q \in 1..Len(t.url.query)}
    \cup (IF t.body = Undefined THEN {}
          ELSE IF t.body[1] = "json-text" THEN Texts(t.body[2])
          ELSE UNION {UNION {Texts(t.body[2][f][n]) : n \in 2..Len(t.body[2][f])} :
                        f \in 1..Len(t.body[2])})

\* C23: every request, JSON, multipart, download and view alike, carries
\* the header Authorization: Bearer <token> if and only if the client was
\* built with a token that is not empty; the token is in no URL and no body.
C23_BearerIffTokenAndOnlyInHeader ==
    \A t \in TransportCalls :
        /\ Authorization(t) =
              IF clientOptions.token \in {Undefined, Str("")}
              THEN {}
              ELSE {<<"Bearer ", clientOptions.token[2]>>}
        /\ clientOptions.token \notin {Undefined, Str("")} =>
              clientOptions.token[2] \notin UrlAndBodyTexts(t)

C23_Witness ==
    /\ client.built = "yes"
    /\ clientOptions.token = Str("secret")
    /\ {t.kind : t \in TransportCalls} = {"json", "multipart", "fetch"}
    /\ \A t \in TransportCalls : Authorization(t) = {<<"Bearer ", "secret">>}
    /\ \E t \in TransportCalls : "obj-1" \in UrlAndBodyTexts(t)

----------------------------------------------------------------------------
(* Operations in flight at the same time *)

\* An operation that runs alone on the client and gets the given responses,
\* one after the other.
RECURSIVE Alone(_, _, _)
Alone(this, c, responses) ==
    IF responses = <<>>
    THEN LET ran == Invoke(c)
         IN  IF ran.kind = "sent"
             THEN [call |-> c, phase |-> "awaiting", settlement |-> Pending,
                   sent |-> <<TransportCall(this, ran.request)>>,
                   received |-> <<>>, continuation |-> FirstAwait(c)]
             ELSE [call |-> c, phase |-> "settled",
                   settlement |-> IF ran.kind = "threw" THEN Threw(ran.error)
                                  ELSE Rejected(ran.error),
                   sent |-> <<>>, received |-> <<>>, continuation |-> Finished]
    ELSE LET before == Alone(this, c, SubSeq(responses, 1, Len(responses) - 1))
             response == responses[Len(responses)]
             resumed == Resume(c, before.continuation, response)
         IN  [call |-> c,
              phase |-> IF resumed.settlement.kind = "pending" THEN "awaiting" ELSE "settled",
              settlement |-> resumed.settlement,
              sent |-> IF resumed.settlement.kind = "pending"
                       THEN Append(before.sent, TransportCall(this, resumed.request))
                       ELSE before.sent,
              received |-> responses,
              continuation |-> resumed.continuation]

\* The transport failed the operation's last request.
TransportFailed(flight) ==
    flight.phase = "settled" /\ Len(flight.received) < Len(flight.sent)

\* The operation sent the requests and has the result of a run alone with
\* the same answers of the transport.
AsWhenAlone(flight) ==
    LET alone == Alone(client, flight.call, flight.received)
    IN  IF TransportFailed(flight)
        THEN /\ alone.phase = "awaiting"
             /\ flight.sent = alone.sent
             /\ flight.settlement = Rejected(NetworkError)
        ELSE /\ flight.sent = alone.sent
             /\ flight.settlement = alone.settlement
             /\ flight.phase = alone.phase

\* C26: operations in flight at the same time on one client do not affect
\* each other: under every interleaving of their requests and responses
\* each sends the requests (URL, method, headers, body) and has the result
\* of a run alone, and the client's baseUrl, token and transport never
\* change after construction.
C26_InFlightOperationsIndependent ==
    /\ [](\A i \in 1..MaxInFlight : flights[i].phase # "idle" => AsWhenAlone(flights[i]))
    /\ [][client.built # "no" => client' = client]_vars

C26_Witness ==
    /\ flights[1].call.method = "createObject"
    /\ flights[1].phase = "awaiting"
    /\ Len(flights[1].sent) = 2
    /\ flights[2].call.method = "downloadObject"
    /\ flights[2].phase = "settled"
    /\ Len(flights[2].received) = 1

====
